---- MODULE Spec2Model ----
(***************************************************************************)
(* Model of the Fabric Control Plane of nexus-prime-core:                  *)
(* FabricManager (src/nexus-prime-core/src/lib.rs) with its registry, its  *)
(* two broadcast channels, the node client pool, the sled snapshot and the *)
(* callers that drive it concurrently.                                     *)
(*                                                                         *)
(* Every FabricManager method is cut into steps at the points where it     *)
(* touches something shared: a tokio Mutex (registry, client pool), a      *)
(* broadcast send, the store, an outbound dial or RPC.  A step that        *)
(* acquires a lock also runs the code that follows it up to the next such  *)
(* point.                                                                  *)
(***************************************************************************)
EXTENDS Integers, Sequences, FiniteSets, TLC

\* ------------------------------------------------------------------ bounds

\* Number of FabricManager calls started in one behaviour.
MaxCalls == 2

\* Number of clock ticks that pass in one behaviour.
MaxTicks == 1

\* Resolution of the clock: ticks per minute (chrono durations are finer
\* than a minute; two ticks per minute is enough to tell 5 min from 5.5 min).
TicksPerMinute == 2

\* Number of times the process is restarted over its store in one behaviour.
MaxRestarts == 1
MaxConverts == 2
MaxPublishes == 4
MaxPeriods == 3

\* ---------------------------------------------------------- program constants

\* lib.rs:270  `(now - node.last_seen).num_minutes() > 5`
NODE_STALE_MINUTES == 5

\* lib.rs:280  `... .num_minutes() > 10`
AGENT_STALE_MINUTES == 10

\* config.rs:100  session_timeout_minutes: 60
SESSION_TIMEOUT_MINUTES == 60

\* ------------------------------------------------------------------- values

Tasks == {"t1", "t2"}
\* Callers are interchangeable: of the idle ones the first makes the next call.
TaskOrder == [t \in Tasks |-> IF t = "t1" THEN 1 ELSE 2]
NoTask == "no-task"

\* Option<String>::None
None == "None"

\* An f32 is held in hundredths (50 is 0.5); Option<f32>::None is below every
\* progress value.
NoProgress == -1

\* f32::to_string (Display): the shortest decimal that reads back as the value,
\* without a fraction for a whole number.
f32_to_string(p) ==
    LET whole == p \div 100
        frac == p % 100
    IN IF frac = 0 THEN ToString(whole)
       ELSE ToString(whole) \o "."
              \o (IF frac % 10 = 0 THEN ToString(frac \div 10)
                  ELSE (IF frac < 10 THEN "0" ELSE "") \o ToString(frac))

NodeIds == {"n1", "n2"}

\* The clock value at start-up: late enough for a stored node to be stale.
StartTime == (NODE_STALE_MINUTES + 1) * TicksPerMinute

\* chrono::Duration::num_minutes : whole minutes, truncated toward zero.
num_minutes(d) ==
    IF d >= 0 THEN d \div TicksPerMinute ELSE 0 - ((0 - d) \div TicksPerMinute)

\* struct ComputeNode
ComputeNode(id, last_seen, status, capabilities, proxy) ==
    [id |-> id, node_type |-> "PC", last_seen |-> last_seen, status |-> status,
     capabilities |-> capabilities, ip_address |-> "127.0.0.1",
     proxy_listen_address |-> proxy]

\* struct AIAgent
AIAgent(id, name, agent_type, assigned, status, task, progress) ==
    [id |-> id, name |-> name, agent_type |-> agent_type,
     assigned_node_id |-> assigned, status |-> status,
     current_task |-> task, task_progress |-> progress]

NoNode == ComputeNode("", 0, "", "", None)
NoAgent == AIAgent("", "", "", None, "", None, NoProgress)

\* struct FabricCommand (its parameters map is not read by FabricManager)
FabricCommand(command_id, target_id, command_type) ==
    [command_id |-> command_id, target_id |-> target_id,
     command_type |-> command_type]

NoCommand == FabricCommand("", "", "")

\* The empty HashMap
EmptyMap == [x \in {} |-> NoNode]

\* struct FabricState, #[derive(Default)]
FabricState(compute_nodes, ai_agents) ==
    [compute_nodes |-> compute_nodes, ai_agents |-> ai_agents]

DefaultFabricState == FabricState(EmptyMap, EmptyMap)

\* An insert that keeps the entry a key already has.
MapInsertIfAbsent(m, k, v) ==
    [x \in (DOMAIN m) \cup {k} |-> IF x \in DOMAIN m THEN m[x] ELSE v]

\* HashMap::insert and HashMap::remove
MapInsert(m, k, v) == [x \in (DOMAIN m) \cup {k} |-> IF x = k THEN v ELSE m[x]]
MapRemove(m, k) == [x \in (DOMAIN m) \ {k} |-> m[x]]

\* ------------------------------------------------------------------ events

\* enum InternalFabricEvent: one record shape for the six variants, the
\* fields a variant does not carry left at their empty value.
InternalEvent(variant, id, status, task, progress, node, agent) ==
    [variant |-> variant, id |-> id, status |-> status, task |-> task,
     progress |-> progress, node |-> node, agent |-> agent]

NodeRegistered(node) ==
    InternalEvent("NodeRegistered", node.id, "", None, NoProgress, node, NoAgent)
NodeStatusUpdate(node_id, status) ==
    InternalEvent("NodeStatusUpdate", node_id, status, None, NoProgress, NoNode, NoAgent)
NodePruned(node_id) ==
    InternalEvent("NodePruned", node_id, "", None, NoProgress, NoNode, NoAgent)
AgentRegistered(agent) ==
    InternalEvent("AgentRegistered", agent.id, "", None, NoProgress, NoNode, agent)
AgentStatusUpdate(agent_id, status, task, progress) ==
    InternalEvent("AgentStatusUpdate", agent_id, status, task, progress, NoNode, NoAgent)
\* An event built with the target where the command type belongs.
FabricCommandIssuedSwapped(command_type, target_id) ==
    InternalEvent("FabricCommandIssued", command_type, target_id, None, NoProgress,
                  NoNode, NoAgent)

\* FabricCommandIssued(command_type, target_id): status holds the command type
FabricCommandIssued(command_type, target_id) ==
    InternalEvent("FabricCommandIssued", target_id, command_type, None, NoProgress, NoNode, NoAgent)

NoEvent == InternalEvent("", "", "", None, NoProgress, NoNode, NoAgent)

\* A projection that writes both metadata entries of an agent status update
\* whether or not the option holds a value.
convert_event_unconditional_metadata(event, event_id, timestamp) ==
    LET meta ==
          IF event.variant = "AgentStatusUpdate"
          THEN {<<"current_task", event.task>>,
                <<"task_progress", f32_to_string(event.progress)>>}
          ELSE {}
        wire(event_type, message) ==
          [event_id |-> event_id, timestamp |-> timestamp,
           event_type |-> event_type, message |-> message, metadata |-> meta,
           telemetry |-> None]
    IN CASE event.variant = "NodeRegistered" ->
              wire("NODE_REGISTERED", "Node registered: " \o event.node.id)
         [] event.variant = "NodeStatusUpdate" ->
              wire("NODE_STATUS_UPDATE",
                   "Node " \o event.id \o " status updated: " \o event.status)
         [] event.variant = "NodePruned" ->
              wire("NODE_PRUNED", "Node pruned: " \o event.id)
         [] event.variant = "AgentRegistered" ->
              wire("AGENT_REGISTERED", "Agent registered: " \o event.agent.id)
         [] event.variant = "AgentStatusUpdate" ->
              wire("AGENT_STATUS_UPDATE",
                   "Agent " \o event.id \o " status updated: " \o event.status)
         [] event.variant = "FabricCommandIssued" ->
              wire("FABRIC_COMMAND_ISSUED",
                   "Command issued: " \o event.status \o " to " \o event.id)

\* FabricManager::convert_event: the projection to the wire FabricEvent.
\* event_id is a fresh uuid, timestamp the clock; metadata a set of pairs.
convert_event(event, event_id, timestamp) ==
    LET meta ==
          IF event.variant = "AgentStatusUpdate"
          THEN (IF event.task # None THEN {<<"current_task", event.task>>} ELSE {})
               \cup (IF event.progress # NoProgress
                     THEN {<<"task_progress", f32_to_string(event.progress)>>} ELSE {})
          ELSE {}
        wire(event_type, message) ==
          [event_id |-> event_id, timestamp |-> timestamp,
           event_type |-> event_type, message |-> message, metadata |-> meta,
           telemetry |-> None]
    IN CASE event.variant = "NodeRegistered" ->
              wire("NODE_REGISTERED", "Node registered: " \o event.node.id)
         [] event.variant = "NodeStatusUpdate" ->
              wire("NODE_STATUS_UPDATE",
                   "Node " \o event.id \o " status updated: " \o event.status)
         [] event.variant = "NodePruned" ->
              wire("NODE_PRUNED", "Node pruned: " \o event.id)
         [] event.variant = "AgentRegistered" ->
              wire("AGENT_REGISTERED", "Agent registered: " \o event.agent.id)
         [] event.variant = "AgentStatusUpdate" ->
              wire("AGENT_STATUS_UPDATE",
                   "Agent " \o event.id \o " status updated: " \o event.status)
         [] event.variant = "FabricCommandIssued" ->
              wire("FABRIC_COMMAND_ISSUED",
                   "Command issued: " \o event.status \o " to " \o event.id)

\* -------------------------------------------------------------------- store

\* bincode::serialize(&FabricState): each map written as its entries.
bincode_serialize(state) ==
    [kind |-> "bytes",
     nodes |-> {<<k, state.compute_nodes[k]>> : k \in DOMAIN state.compute_nodes},
     agents |-> {<<k, state.ai_agents[k]>> : k \in DOMAIN state.ai_agents}]

\* The store with no fabric_state key, and one holding bytes that do not
\* decode: a snapshot cut off after the entry of its first node.
AbsentBytes == [kind |-> "absent", nodes |-> {}, agents |-> {}]
CorruptBytes ==
    [kind |-> "corrupt",
     nodes |-> {<<"n1", ComputeNode("n1", StartTime, "Online", "CPU:4,RAM:16GB", None)>>},
     agents |-> {}]

\* A decoder that reads the nodes map and stops.
bincode_deserialize_nodes_only(bytes) ==
    FabricState([k \in {e[1] : e \in bytes.nodes} |->
                   (CHOOSE e \in bytes.nodes : e[1] = k)[2]],
                [x \in {} |-> 0])

\* bincode::deserialize: the maps rebuilt from their entries.
bincode_deserialize(bytes) ==
    LET nk == {e[1] : e \in bytes.nodes}
        ak == {e[1] : e \in bytes.agents}
    IN FabricState(
         [k \in nk |-> (CHOOSE e \in bytes.nodes : e[1] = k)[2]],
         [k \in ak |-> (CHOOSE e \in bytes.agents : e[1] = k)[2]])

\* A load that keeps what it could read of bytes that do not decode.
load_state_from_db_partial(bytes) ==
    IF bytes.kind = "absent" THEN DefaultFabricState ELSE bincode_deserialize(bytes)

\* FabricManager::load_state_from_db followed by unwrap_or_default (lib.rs:77).
load_state_from_db(bytes) ==
    IF bytes.kind = "bytes" THEN bincode_deserialize(bytes) ELSE DefaultFabricState

\* ------------------------------------------------------------ stored snapshots

\* Registries a previous run of the program can have left under fabric_state.
FreshNodeSeen == StartTime
StaleNodeSeen == StartTime - (NODE_STALE_MINUTES + 1) * TicksPerMinute
AlmostStaleNodeSeen == StartTime - (NODE_STALE_MINUTES * TicksPerMinute + 1)

SnapshotA ==
    FabricState(
      [k \in {"n1"} |-> ComputeNode("n1", FreshNodeSeen, "Online", "CPU:4,RAM:16GB", None)],
      [k \in {"a1"} |-> AIAgent("a1", "Synthesizer", "Synthesizer", "n1", "Idle", None, NoProgress)])

SnapshotB ==
    FabricState(
      [k \in {"n1", "n2"} |->
         IF k = "n1"
         THEN ComputeNode("n1", StaleNodeSeen, "Online", "CPU:4,RAM:16GB", None)
         ELSE ComputeNode("n2", AlmostStaleNodeSeen, "Degraded", "CPU:8", None)],
      [k \in {"a1"} |-> AIAgent("a1", "Protector", "Protector", None, "Idle", None, NoProgress)])

StoredBytes ==
    {AbsentBytes, CorruptBytes, bincode_serialize(SnapshotA), bincode_serialize(SnapshotB)}

\* How the process is set up: what the store holds, and whether the receiver
\* of the command channel is kept (main.rs:197, 215) or dropped (lib.rs:555).
\* With the registry a completed snapshot of the earlier run left there.
Snapshot(state) == [held |-> TRUE, state |-> state]
NoSnapshot == [held |-> FALSE, state |-> DefaultFabricState]

Boots ==
    {<<AbsentBytes, FALSE, NoSnapshot>>, <<CorruptBytes, TRUE, NoSnapshot>>,
     <<bincode_serialize(SnapshotA), TRUE, Snapshot(SnapshotA)>>,
     <<bincode_serialize(SnapshotB), FALSE, Snapshot(SnapshotB)>>,
     <<bincode_serialize(SnapshotB), TRUE, Snapshot(SnapshotB)>>}

\* ------------------------------------------------------------------ requests

NoArgs ==
    [node |-> NoNode, agent |-> NoAgent, id |-> "", status |-> "", task |-> None,
     progress |-> NoProgress, dest |-> "", cmd |-> NoCommand]

Request(name, a) == [op |-> name, args |-> a]
NoCall == Request("", NoArgs)

ProxyAddress == "10.0.0.7:50052"

\* The calls a caller can make at clock value t.
Requests(t) ==
    {Request("register_node", [NoArgs EXCEPT !.node = n]) :
        n \in {ComputeNode("n1", t, "Online", "CPU:4,RAM:16GB", ProxyAddress),
               ComputeNode("n2", t - (NODE_STALE_MINUTES + 1) * TicksPerMinute,
                           "Online", "CPU:4,RAM:16GB", None),
               ComputeNode("n1", t, "Offline", "CPU:2", ProxyAddress)}}
    \cup {Request("update_node_status", [NoArgs EXCEPT !.id = x[1], !.status = x[2]]) :
            x \in {<<"n1", "Degraded">>, <<"n2", "Online">>}}
    \cup {Request("register_ai_agent", [NoArgs EXCEPT !.agent = a]) :
            a \in {AIAgent("a1", "Synthesizer", "Synthesizer", "n1", "Idle", None, NoProgress),
                   AIAgent("a2", "Protector", "Protector", None, "Idle", None, NoProgress)}}
    \cup {Request("update_ai_agent_status",
                  [NoArgs EXCEPT !.id = x[1], !.status = x[2], !.task = x[3],
                                 !.progress = x[4]]) :
            x \in {<<"a1", "Processing", "TaskA", 50>>,
                   <<"a1", "Idle", None, NoProgress>>,
                   <<"dummy-agent", "Idle", "Thinking", 0>>,
                   <<"", "Idle", None, NoProgress>>}}
    \cup {Request("issue_command", [NoArgs EXCEPT !.cmd = c]) :
            c \in {FabricCommand("cmd-1", "n1", "REBOOT_NODE"),
                   FabricCommand("cmd-2", "a1", "STOP_AGENT")}}
    \cup {Request("prune_stale_entities", NoArgs)}
    \cup {Request("deploy_agent", [NoArgs EXCEPT !.id = i]) : i \in NodeIds}
    \cup {Request("stop_agent", [NoArgs EXCEPT !.id = i]) : i \in {"a1", "agent-1"}}
    \cup {Request("migrate_agent", [NoArgs EXCEPT !.id = x[1], !.dest = x[2]]) :
            x \in {<<"a1", "n1">>, <<"a1", "n2">>, <<"a2", "n1">>}}

\* The first await of each method.
EntryPc(name) ==
    CASE name = "register_node" -> "rn_lock"
      [] name = "update_node_status" -> "uns_lock"
      [] name = "register_ai_agent" -> "ra_lock"
      [] name = "update_ai_agent_status" -> "uas_lock"
      [] name = "issue_command" -> "ic_send"
      [] name = "prune_stale_entities" -> "pr_lock"
      [] name = "deploy_agent" -> "dp_lock"
      [] name = "stop_agent" -> "st_lock"
      [] name = "migrate_agent" -> "mg_lock"

\* No handler answers.
NoResponse == "no-response"

\* A status handler that answers an agent update with an error status.
HandlerResponseAgentError(op) ==
    CASE op = "register_node" -> "REGISTERED"
      [] op = "update_node_status" -> "OK"
      [] op = "update_ai_agent_status" -> "NOT_FOUND"
      [] op = "issue_command" -> "COMMAND_SENT"
      [] OTHER -> NoResponse

\* The response of the gRPC handler around a method once the method has
\* returned: register_agent (lib.rs:485-489), update_agent_status
\* (lib.rs:519-522), send_fabric_command (lib.rs:546-549); the other methods
\* are not called from a handler.
HandlerResponse(op) ==
    CASE op = "register_node" -> "REGISTERED"
      [] op \in {"update_node_status", "update_ai_agent_status"} -> "OK"
      [] op = "issue_command" -> "COMMAND_SENT"
      [] OTHER -> NoResponse

\* lib.rs:498-500  update_agent_status answers an empty node_id with
\* Status::invalid_argument before it calls anything.
HandlerRejects(r) ==
    r.op \in {"update_node_status", "update_ai_agent_status"} /\ r.args.id = ""

\* The methods the gRPC service calls from a request handler (lib.rs:484,
\* 503, 510, 545), whose future tonic drops when the request goes away.
HandlerOps ==
    {"register_node", "update_node_status", "update_ai_agent_status", "issue_command"}

\* ---------------------------------------------------------- SecurityManager

\* Number of calls on the SecurityManager in one behaviour, and of tokens it
\* generates.
MaxSecurityCalls == 4
MaxTokens == 1

\* security.rs:159  expires_at: Utc::now() + Duration::minutes(session_timeout_minutes)
SessionTimeout == SESSION_TIMEOUT_MINUTES * TicksPerMinute

\* struct AuthToken, the fields validate_token reads
AuthToken(token_id, expires_at) == [token_id |-> token_id, expires_at |-> expires_at]

\* security.rs:249-255  the secret, a colon and the base64 text of the token's
\* JSON: a string that differs wherever the token does
encode_token(token) ==
    "secret:" \o ToString(token.token_id) \o "/" \o ToString(token.expires_at)

\* The token strings a caller presents: the one generate_token hands out at
\* start-up time, and one no call has handed out.
TokenStrings ==
    {encode_token(AuthToken(1, StartTime + SessionTimeout)), "secret:forged"}

\* tokio::sync::RwLock: one writer or any number of readers.
RwFree == [writer |-> NoTask, readers |-> {}]
CanRead(l) == l.writer = NoTask
CanWrite(l) == l.writer = NoTask /\ l.readers = {}

NoSecurityCall == [op |-> "", token |-> ""]

\* security.rs:87-93  SecurityManager::new: both tables empty, both locks free
NewSecurityManager ==
    [active_tokens |-> [x \in {} |-> AuthToken(0, 0)],
     revoked_tokens |-> <<>>,
     active_lock |-> RwFree,
     revoked_lock |-> RwFree,
     pc |-> [t \in Tasks |-> "idle"],
     call |-> [t \in Tasks |-> NoSecurityCall],
     removed |-> [t \in Tasks |-> 0],
     result |-> [t \in Tasks |-> ""],
     minted |-> 0,
     calls |-> 0]

\* -------------------------------------------------------------------- state

VARIABLES
    compute_nodes,   \* FabricState.compute_nodes
    ai_agents,       \* FabricState.ai_agents
    state_lock,      \* the task holding FabricManager.state, or NoTask
    clients_lock,    \* the task holding FabricManager.node_clients, or NoTask
    node_clients,    \* node id -> address of the connected client
    db,              \* the value under key fabric_state
    event_bus,       \* every send on event_bus_tx, in order
    event_stream,    \* every send on event_stream_tx, in order
    now,             \* chrono::Utc::now()
    uuid,            \* number of uuids minted so far
    calls,           \* number of calls started
    pc,              \* per task: where it is
    call,            \* per task: the method it runs and its arguments
    ev,              \* per task: the event it is about to broadcast
    loc,             \* per task: the method's local variables
    command_queue,   \* the commands sent on command_tx and not yet received
    command_rx_open, \* whether the receiver of command_tx still exists
    sub_kind,        \* the subscriber there is: "none", "grpc_lib", "grpc_main", "ws"
    sub_next,        \* position in its channel of the next event it reads
    sub_got,         \* history: what it has received, with the position of each
    sub_lags,        \* history: number of Lagged errors it has received
    sub_open,        \* whether it still reads
    late_sub,        \* the subscriber of a stream_fabric_events call made later
    reaper,          \* periodic_pruner: deadline of its next tick, prunes started
    security,        \* SecurityManager: token tables, their locks, the calls on it
    applied,         \* history: the mutations applied to the registry, in order
    store_failed,    \* history: a snapshot write has failed
    returned_early,  \* history: the methods that returned at a failed lookup
    last_snapshot,   \* history: the registry of the completed snapshot the store holds
    boots,           \* history: number of restarts
    response         \* the response a gRPC handler sends in this step

vars ==
    <<compute_nodes, ai_agents, state_lock, clients_lock, node_clients, db,
      event_bus, event_stream, now, uuid, calls, pc, call, ev, loc,
      command_queue, command_rx_open, sub_kind, sub_next, sub_got, sub_lags,
      sub_open, late_sub, applied, store_failed, returned_early, last_snapshot,
      boots, reaper, security, response>>

NoLoc ==
    [now |-> 0, stale_nodes |-> {}, pruned |-> FALSE, agent_id |-> "",
     new_agent |-> NoAgent, node_id |-> "", resp |-> "", seen |-> ""]

Mutation(kind, id) == [kind |-> kind, id |-> id]

\* stream_fabric_events has not been called: there is no receiver.
NoSubscription == [from |-> 0, next |-> 0, got |-> <<>>, lags |-> 0, open |-> FALSE]

\* FabricManager::new (lib.rs:71-86) over a store, with the channels of
\* spawn_server or main and the subscriber `kinds` allows.
Boot(kinds) ==
    /\ \E b \in Boots : db = b[1] /\ command_rx_open = b[2] /\ last_snapshot = b[3]
    /\ compute_nodes = load_state_from_db(db).compute_nodes
    /\ ai_agents = load_state_from_db(db).ai_agents
    /\ state_lock = NoTask
    /\ clients_lock = NoTask
    /\ node_clients = [x \in {} |-> ""]
    /\ event_bus = <<>>
    /\ event_stream = <<>>
    /\ now = StartTime
    /\ uuid = 0
    /\ calls = 0
    /\ pc = [t \in Tasks |-> "idle"]
    /\ call = [t \in Tasks |-> NoCall]
    /\ ev = [t \in Tasks |-> NoEvent]
    /\ loc = [t \in Tasks |-> NoLoc]
    /\ command_queue = <<>>
    /\ sub_kind \in kinds
    /\ sub_next = 1
    /\ sub_got = <<>>
    /\ sub_lags = 0
    /\ sub_open = (sub_kind # "none")
    /\ late_sub = NoSubscription
    /\ reaper = [deadline |-> StartTime, runs |-> 0]
    /\ security = NewSecurityManager
    /\ applied = <<>>
    /\ store_failed = FALSE
    /\ returned_early = {}
    /\ boots = 0
    /\ response = NoResponse

\* No subscriber on either channel.
Init == Boot({"none"})

\* ------------------------------------------------------------ frame helpers

Registry == <<compute_nodes, ai_agents>>
Subscriber == <<sub_kind, sub_next, sub_got, sub_lags, sub_open, late_sub>>
Channels == <<event_bus, event_stream, command_queue, command_rx_open>>

\* Task t moves to `label`, with event e pending and locals l.
Continue(t, label, e, l) ==
    /\ pc' = [pc EXCEPT ![t] = label]
    /\ ev' = [ev EXCEPT ![t] = e]
    /\ loc' = [loc EXCEPT ![t] = l]
    /\ call' = call
    /\ response' = NoResponse

\* The frame of the method of task t is gone.
Unwind(t) ==
    /\ pc' = [pc EXCEPT ![t] = "idle"]
    /\ ev' = [ev EXCEPT ![t] = NoEvent]
    /\ loc' = [loc EXCEPT ![t] = NoLoc]
    /\ call' = [call EXCEPT ![t] = NoCall]

\* The method returns to its caller; a handler then answers.
Return(t) ==
    /\ Unwind(t)
    /\ response' = HandlerResponse(call[t].op)

\* ------------------------------------------------------------------ callers

\* A caller (a gRPC handler, the command processor, the pruner, a test)
\* invokes a FabricManager method.
Call(t) ==
    /\ pc[t] = "idle"
    /\ calls < MaxCalls
    /\ \A u \in Tasks : pc[u] = "idle" => TaskOrder[t] <= TaskOrder[u]
    /\ \E r \in Requests(now) :
         IF HandlerRejects(r)
         THEN /\ response' = "INVALID_ARGUMENT"
              /\ UNCHANGED <<call, pc>>
         ELSE /\ response' = NoResponse
              /\ call' = [call EXCEPT ![t] = r]
              /\ pc' = [pc EXCEPT ![t] = EntryPc(r.op)]
    /\ calls' = calls + 1
    /\ UNCHANGED <<Subscriber, Registry, state_lock, clients_lock, node_clients, db, Channels,
                   now, uuid, ev, loc, applied, store_failed, returned_early,
                   last_snapshot, boots, reaper, security>>

\* The awaits at which a handler's call can be pending when its future is dropped.
CancelPoint(t) ==
    \/ pc[t] = "rn_dial"
    \/ pc[t] = "rn_clients" /\ clients_lock # NoTask
    \/ pc[t] = "save_lock" /\ state_lock # NoTask

\* tonic drops the handler future (client gone, deadline passed): every guard
\* the future owns is dropped with it, and the method never returns.
Cancel(t) ==
    /\ call[t].op \in HandlerOps
    /\ CancelPoint(t)
    /\ state_lock' = IF state_lock = t THEN NoTask ELSE state_lock
    /\ clients_lock' = IF clients_lock = t THEN NoTask ELSE clients_lock
    /\ Unwind(t)
    /\ response' = NoResponse
    /\ UNCHANGED <<Subscriber, Registry, node_clients, db, Channels, now, uuid, calls, applied,
                   store_failed, returned_early,
                   last_snapshot, boots, reaper, security>>

\* Time passes.
Tick ==
    /\ response' = NoResponse
    /\ now < StartTime + MaxTicks
    /\ now' = now + 1
    /\ UNCHANGED <<Subscriber, Registry, state_lock, clients_lock, node_clients, db, Channels,
                   uuid, calls, pc, call, ev, loc, applied, store_failed, returned_early,
                   last_snapshot, boots, reaper, security>>

\* ----------------------------------------------------------- broadcast_event

\* lib.rs:177  self.event_bus_tx.send(event.clone())
BroadcastBus(t) ==
    /\ response' = NoResponse
    /\ pc[t] = "bcast_bus"
    /\ event_bus' = Append(event_bus, ev[t])
    /\ pc' = [pc EXCEPT ![t] = "bcast_stream"]
    /\ UNCHANGED <<Subscriber, Registry, state_lock, clients_lock, node_clients, db, event_stream,
                   command_queue, command_rx_open, now, uuid, calls, call, ev, loc,
                   applied, store_failed, returned_early,
                   last_snapshot, boots, reaper, security>>

\* Where a method goes on after broadcast_event.
AfterBroadcast(t) ==
    CASE call[t].op = "issue_command" -> "idle"
      [] call[t].op = "prune_stale_entities" ->
           IF loc[t].stale_nodes = {} THEN "pr_agents" ELSE "pr_remove"
      [] OTHER -> "save_lock"

\* lib.rs:182-185  convert_event, then self.event_stream_tx.send(fabric_event)
BroadcastStream(t) ==
    /\ pc[t] = "bcast_stream"
    /\ event_stream' = Append(event_stream, convert_event(ev[t], uuid + 1, now))
    /\ uuid' = uuid + 1
    /\ IF AfterBroadcast(t) = "idle"
       THEN Return(t)
       ELSE Continue(t, AfterBroadcast(t), NoEvent, loc[t])
    /\ UNCHANGED <<Subscriber, Registry, state_lock, clients_lock, node_clients, db, event_bus,
                   command_queue, command_rx_open, now, calls, applied, store_failed, returned_early,
                   last_snapshot, boots, reaper, security>>

\* ---------------------------------------------------------------- save_state

\* lib.rs:96  let state = self.state.lock().await
SaveLock(t) ==
    /\ response' = NoResponse
    /\ pc[t] = "save_lock"
    /\ state_lock = NoTask
    /\ state_lock' = t
    /\ pc' = [pc EXCEPT ![t] = "save_write"]
    /\ UNCHANGED <<Subscriber, Registry, clients_lock, node_clients, db, Channels, now, uuid,
                   calls, call, ev, loc, applied, store_failed, returned_early,
                   last_snapshot, boots, reaper, security>>

\* A store whose failed write takes the old value with it.
StoredOrLost(old, state, outcome) ==
    IF outcome = "ok" THEN bincode_serialize(state) ELSE AbsentBytes

\* The value under fabric_state after save_state's insert and flush end in
\* `outcome`: a failed insert leaves the old value.
Stored(old, state, outcome) ==
    IF outcome = "insert_failed" THEN old ELSE bincode_serialize(state)

\* The completed snapshot the store holds after that: the one just written,
\* the one before if the insert failed, none if only the flush failed.
Written(before, state, outcome) ==
    CASE outcome = "ok" -> Snapshot(state)
      [] outcome = "insert_failed" -> before
      [] outcome = "flush_failed" -> NoSnapshot

\* lib.rs:97-101  serialize, insert, flush; the guard is dropped and the error,
\* if any, logged by the caller, which then returns.
SaveWrite(t) ==
    /\ pc[t] = "save_write"
    /\ \E outcome \in {"ok", "insert_failed", "flush_failed"} :
         /\ outcome # "ok" => ~store_failed
         /\ db' = Stored(db, FabricState(compute_nodes, ai_agents), outcome)
         /\ store_failed' = (store_failed \/ outcome # "ok")
         /\ last_snapshot' = Written(last_snapshot, FabricState(compute_nodes, ai_agents),
                                     outcome)
    /\ state_lock' = NoTask
    /\ Return(t)
    /\ UNCHANGED <<Subscriber, Registry, clients_lock, node_clients, Channels, now, uuid, calls,
                   applied, returned_early, boots, reaper, security>>

\* -------------------------------------------------------------- register_node

\* lib.rs:207-208  insert the node, then broadcast NodeRegistered
InsertNode(t) ==
    /\ compute_nodes' = MapInsert(compute_nodes, call[t].args.node.id, call[t].args.node)
    /\ applied' = Append(applied, Mutation("node_insert", call[t].args.node.id))
    /\ Continue(t, "bcast_bus", NodeRegistered(call[t].args.node), loc[t])
    /\ UNCHANGED ai_agents

\* lib.rs:190-194  lock the registry; a node with a proxy address is dialled
RegisterNodeLock(t) ==
    /\ pc[t] = "rn_lock"
    /\ state_lock = NoTask
    /\ state_lock' = t
    /\ IF call[t].args.node.proxy_listen_address # None
       THEN /\ Continue(t, "rn_dial", NoEvent, loc[t])
            /\ UNCHANGED <<Registry, applied>>
       ELSE InsertNode(t)
    /\ UNCHANGED <<Subscriber, clients_lock, node_clients, db, Channels, now, uuid, calls,
                   store_failed, returned_early,
                   last_snapshot, boots, reaper, security>>

\* A registration for which a failed dial is fatal: the node is not stored.
RegisterNodeDialFatal(t) ==
    /\ pc[t] = "rn_dial"
    /\ \E connected \in BOOLEAN :
         Continue(t, IF connected THEN "rn_clients" ELSE "save_lock", NoEvent, loc[t])
    /\ UNCHANGED <<Subscriber, Registry, applied, state_lock, clients_lock, node_clients, db,
                   Channels, now, uuid, calls, store_failed, returned_early,
                   last_snapshot, boots, reaper, security>>

\* lib.rs:196  channel.connect().await, the registry lock still held
RegisterNodeDial(t) ==
    /\ pc[t] = "rn_dial"
    /\ \E connected \in BOOLEAN :
         IF connected
         THEN /\ Continue(t, "rn_clients", NoEvent, loc[t])
              /\ UNCHANGED <<Registry, applied>>
         ELSE InsertNode(t)
    /\ UNCHANGED <<Subscriber, state_lock, clients_lock, node_clients, db, Channels, now, uuid,
                   calls, store_failed, returned_early,
                   last_snapshot, boots, reaper, security>>

\* lib.rs:198  let mut clients = self.node_clients.lock().await
RegisterNodeClients(t) ==
    /\ response' = NoResponse
    /\ pc[t] = "rn_clients"
    /\ clients_lock = NoTask
    /\ clients_lock' = t
    /\ pc' = [pc EXCEPT ![t] = "rn_pool"]
    /\ UNCHANGED <<Subscriber, Registry, state_lock, node_clients, db, Channels, now, uuid, calls,
                   call, ev, loc, applied, store_failed, returned_early,
                   last_snapshot, boots, reaper, security>>

\* lib.rs:199-201  clients.insert(node.id, client); the pool guard is dropped
RegisterNodePool(t) ==
    /\ pc[t] = "rn_pool"
    /\ node_clients' = MapInsert(node_clients, call[t].args.node.id,
                                 call[t].args.node.proxy_listen_address)
    /\ clients_lock' = NoTask
    /\ InsertNode(t)
    /\ UNCHANGED <<Subscriber, state_lock, db, Channels, now, uuid, calls, store_failed, returned_early,
                   last_snapshot, boots, reaper, security>>

\* --------------------------------------------------------- update_node_status

\* An update that forgets the heartbeat time.
UpdatedNodeKeepsLastSeen(node, status, t) == [node EXCEPT !.status = status]

\* lib.rs:219-220  node.status = status; node.last_seen = Utc::now()
UpdatedNode(node, status, t) == [node EXCEPT !.status = status, !.last_seen = t]

\* lib.rs:221  the event update_node_status broadcasts
NodeStatusEvent(node_id, status) == NodeStatusUpdate(node_id, status)

\* A lookup that takes every id for registered.
KnownNodeAlways(nodes, node_id) == TRUE

\* lib.rs:217  state.compute_nodes.get_mut(&node_id) is Some
KnownNode(nodes, node_id) == node_id \in DOMAIN nodes

\* lib.rs:216-227
UpdateNodeStatus(t) ==
    /\ pc[t] = "uns_lock"
    /\ state_lock = NoTask
    /\ LET id == call[t].args.id
           status == call[t].args.status
       IN IF KnownNode(compute_nodes, id)
          THEN /\ state_lock' = t
               /\ compute_nodes' =
                    [compute_nodes EXCEPT ![id] = UpdatedNode(@, status, now)]
               /\ applied' = Append(applied, Mutation("node_status", id))
               /\ Continue(t, "bcast_bus", NodeStatusEvent(id, status), loc[t])
               /\ UNCHANGED returned_early
          ELSE /\ Return(t)
               /\ returned_early' = returned_early \cup {call[t].op}
               /\ UNCHANGED <<compute_nodes, state_lock, applied>>
    /\ UNCHANGED <<Subscriber, ai_agents, clients_lock, node_clients, db, Channels, now, uuid,
                   calls, store_failed, last_snapshot, boots, reaper, security>>

\* ---------------------------------------------------------- register_ai_agent

\* lib.rs:232-235
RegisterAiAgent(t) ==
    /\ pc[t] = "ra_lock"
    /\ state_lock = NoTask
    /\ state_lock' = t
    /\ ai_agents' = MapInsert(ai_agents, call[t].args.agent.id, call[t].args.agent)
    /\ applied' = Append(applied, Mutation("agent_insert", call[t].args.agent.id))
    /\ Continue(t, "bcast_bus", AgentRegistered(call[t].args.agent), loc[t])
    /\ UNCHANGED <<Subscriber, compute_nodes, clients_lock, node_clients, db, Channels, now, uuid,
                   calls, store_failed, returned_early,
                   last_snapshot, boots, reaper, security>>

\* ----------------------------------------------------- update_ai_agent_status

\* An update that keeps the task and the progress it is not given.
UpdatedAgentKeepsTask(agent, status, task, progress) ==
    [agent EXCEPT !.status = status,
                  !.current_task = IF task = None THEN @ ELSE task,
                  !.task_progress = IF progress = NoProgress THEN @ ELSE progress]

\* lib.rs:246-248
UpdatedAgent(agent, status, task, progress) ==
    [agent EXCEPT !.status = status, !.current_task = task, !.task_progress = progress]

\* lib.rs:243-255
UpdateAiAgentStatus(t) ==
    /\ pc[t] = "uas_lock"
    /\ state_lock = NoTask
    /\ LET a == call[t].args
       IN IF a.id \in DOMAIN ai_agents
          THEN /\ state_lock' = t
               /\ ai_agents' = [ai_agents EXCEPT
                                  ![a.id] = UpdatedAgent(@, a.status, a.task, a.progress)]
               /\ applied' = Append(applied, Mutation("agent_status", a.id))
               /\ Continue(t, "bcast_bus",
                           AgentStatusUpdate(a.id, a.status, a.task, a.progress), loc[t])
               /\ UNCHANGED returned_early
          ELSE /\ Return(t)
               /\ returned_early' = returned_early \cup {call[t].op}
               /\ UNCHANGED <<ai_agents, state_lock, applied>>
    /\ UNCHANGED <<Subscriber, compute_nodes, clients_lock, node_clients, db, Channels, now, uuid,
                   calls, store_failed, last_snapshot, boots, reaper, security>>

\* -------------------------------------------------------------- issue_command

\* mpsc::channel(100): lib.rs:555, main.rs:197
COMMAND_CAPACITY == 100

\* lib.rs:260-261  command_tx.send(command).await, its error ignored; the
\* send waits while the channel is full and fails at once without a receiver.
IssueCommand(t) ==
    /\ pc[t] = "ic_send"
    /\ command_rx_open => Len(command_queue) < COMMAND_CAPACITY
    /\ command_queue' =
         IF command_rx_open THEN Append(command_queue, call[t].args.cmd)
         ELSE command_queue
    /\ Continue(t, "bcast_bus",
                FabricCommandIssued(call[t].args.cmd.command_type,
                                    call[t].args.cmd.target_id), loc[t])
    /\ UNCHANGED <<Subscriber, Registry, state_lock, clients_lock, node_clients, db, event_bus,
                   event_stream, command_rx_open, now, uuid, calls, applied,
                   store_failed, returned_early,
                   last_snapshot, boots, reaper, security>>

\* ------------------------------------------------------- prune_stale_entities

\* A prune without a grace period: every node seen up to now is stale.
StaleNodeNoGrace(node, t) == num_minutes(t - node.last_seen) >= 0

\* lib.rs:270  (now - node.last_seen).num_minutes() > 5
StaleNode(node, t) == num_minutes(t - node.last_seen) > NODE_STALE_MINUTES

\* A prune that takes every agent without a node for stale.
StaleAgentUnassigned(agent, t, t2) == agent.assigned_node_id = None

\* lib.rs:280  (now - agent.assigned_node_id.as_ref().map_or(now, |_| Utc::now()))
\*             .num_minutes() > 10, with t2 the value of that later Utc::now()
StaleAgent(agent, t, t2) ==
    num_minutes(t - (IF agent.assigned_node_id = None THEN t ELSE t2))
      > AGENT_STALE_MINUTES

\* lib.rs:265-273  lock, read the clock, collect the stale node ids
PruneLock(t) ==
    /\ pc[t] = "pr_lock"
    /\ state_lock = NoTask
    /\ state_lock' = t
    /\ LET stale == {id \in DOMAIN compute_nodes : StaleNode(compute_nodes[id], now)}
       IN Continue(t, IF stale = {} THEN "pr_agents" ELSE "pr_remove", NoEvent,
                   [loc[t] EXCEPT !.now = now, !.stale_nodes = stale,
                                  !.pruned = (stale # {})])
    /\ UNCHANGED <<Subscriber, Registry, clients_lock, node_clients, db, Channels, now, uuid,
                   calls, applied, store_failed, returned_early,
                   last_snapshot, boots, reaper, security>>

\* lib.rs:274-278  the next stale node (the Vec is in HashMap iteration
\* order) is removed and NodePruned broadcast
PruneRemove(t) ==
    /\ pc[t] = "pr_remove"
    /\ \E id \in loc[t].stale_nodes :
         /\ compute_nodes' = MapRemove(compute_nodes, id)
         /\ applied' = Append(applied, Mutation("node_remove", id))
         /\ Continue(t, "bcast_bus", NodePruned(id),
                     [loc[t] EXCEPT !.stale_nodes = @ \ {id}])
    /\ UNCHANGED <<Subscriber, ai_agents, state_lock, clients_lock, node_clients, db, Channels,
                   now, uuid, calls, store_failed, returned_early,
                   last_snapshot, boots, reaper, security>>

\* The mutations that remove the agents in S, one per agent.
RECURSIVE AgentRemovals(_)
AgentRemovals(S) ==
    IF S = {} THEN <<>>
    ELSE LET id == CHOOSE x \in S : TRUE
         IN <<Mutation("agent_remove", id)>> \o AgentRemovals(S \ {id})

\* lib.rs:279-294  the stale agents are removed without an event; a snapshot
\* follows if anything was stale, the registry lock still held
PruneAgents(t) ==
    /\ pc[t] = "pr_agents"
    /\ LET stale == {id \in DOMAIN ai_agents : StaleAgent(ai_agents[id], loc[t].now, now)}
       IN /\ ai_agents' = [id \in (DOMAIN ai_agents) \ stale |-> ai_agents[id]]
          /\ applied' = applied \o AgentRemovals(stale)
          /\ IF loc[t].pruned \/ stale # {}
             THEN /\ Continue(t, "save_lock", NoEvent, loc[t])
                  /\ UNCHANGED state_lock
             ELSE /\ Return(t)
                  /\ state_lock' = NoTask
    /\ UNCHANGED <<Subscriber, compute_nodes, clients_lock, node_clients, db, Channels, now, uuid,
                   calls, store_failed, returned_early,
                   last_snapshot, boots, reaper, security>>

\* --------------------------------------------------------------- deploy_agent

\* An admission that does not look at the status of the target.
DeployAdmitsAnyStatus(nodes, target) == target \in DOMAIN nodes

\* lib.rs:300-301  the target is a registered node whose status is "Online"
DeployAdmits(nodes, target) ==
    target \in DOMAIN nodes /\ nodes[target].status = "Online"

\* lib.rs:302  format!("agent-{}", Uuid::new_v4())
MintAgentId(n) == "agent-" \o ToString(n)

\* lib.rs:337-341  the entry for agent_id gets the status of the response if
\* it exists; otherwise the agent composed before the RPC is inserted as it is
DeployCommit(agents, agent_id, new_agent, resp_status) ==
    IF agent_id \in DOMAIN agents
    THEN [agents EXCEPT ![agent_id].status =
            IF resp_status = "SUCCESS" THEN "Running" ELSE "Failed"]
    ELSE MapInsert(agents, agent_id, new_agent)

\* lib.rs:344  the event deploy_agent broadcasts
DeployEvent(new_agent) == AgentRegistered(new_agent)

\* lib.rs:299-313  lock, check the target, compose the agent
DeployLock(t) ==
    /\ pc[t] = "dp_lock"
    /\ state_lock = NoTask
    /\ state_lock' = t
    /\ LET target == call[t].args.id
           seen == IF target \in DOMAIN compute_nodes
                   THEN compute_nodes[target].status ELSE None
       IN IF DeployAdmits(compute_nodes, target)
          THEN /\ uuid' = uuid + 1
               /\ Continue(t, "dp_clients", NoEvent,
                           [loc[t] EXCEPT
                              !.seen = seen,
                              !.agent_id = MintAgentId(uuid + 1),
                              !.new_agent = AIAgent(MintAgentId(uuid + 1), "alpha",
                                                    "Synthesizer", target, "Deploying",
                                                    None, NoProgress)])
          ELSE /\ uuid' = uuid
               /\ Continue(t, "save_lock", NoEvent, [loc[t] EXCEPT !.seen = seen])
    /\ UNCHANGED <<Subscriber, Registry, clients_lock, node_clients, db, Channels, now, calls,
                   applied, store_failed, returned_early,
                   last_snapshot, boots, reaper, security>>

\* lib.rs:316  let clients = self.node_clients.lock().await
DeployClients(t) ==
    /\ response' = NoResponse
    /\ pc[t] = "dp_clients"
    /\ clients_lock = NoTask
    /\ clients_lock' = t
    /\ pc' = [pc EXCEPT ![t] = "dp_pool"]
    /\ UNCHANGED <<Subscriber, Registry, state_lock, node_clients, db, Channels, now, uuid, calls,
                   call, ev, loc, applied, store_failed, returned_early,
                   last_snapshot, boots, reaper, security>>

\* A deploy that goes into the RPC with the registry guard alive.
DeployPoolKeepsLock(t) ==
    /\ response' = NoResponse
    /\ pc[t] = "dp_pool"
    /\ clients_lock' = NoTask
    /\ state_lock' = state_lock
    /\ pc' = [pc EXCEPT ![t] = IF call[t].args.id \in DOMAIN node_clients
                               THEN "dp_rpc" ELSE "save_lock"]
    /\ UNCHANGED <<Subscriber, Registry, node_clients, db, Channels, now, uuid, calls, call, ev,
                   loc, applied, store_failed, returned_early,
                   last_snapshot, boots, reaper, security>>

\* lib.rs:317-320, 350-352  with a client both guards are dropped before the
\* RPC; without one only the pool guard goes out of scope
DeployPool(t) ==
    /\ response' = NoResponse
    /\ pc[t] = "dp_pool"
    /\ clients_lock' = NoTask
    /\ IF call[t].args.id \in DOMAIN node_clients
       THEN /\ state_lock' = NoTask
            /\ pc' = [pc EXCEPT ![t] = "dp_rpc"]
       ELSE /\ state_lock' = state_lock
            /\ pc' = [pc EXCEPT ![t] = "save_lock"]
    /\ UNCHANGED <<Subscriber, Registry, node_clients, db, Channels, now, uuid, calls, call, ev,
                   loc, applied, store_failed, returned_early,
                   last_snapshot, boots, reaper, security>>

\* What an outbound RPC can yield: a response with a status, or an error.
RpcResults == {"SUCCESS", "FAILURE", "Err"}

\* lib.rs:330  client.deploy_agent(Request::new(deploy_req)).await
DeployRpc(t) ==
    /\ pc[t] = "dp_rpc"
    /\ \E r \in RpcResults :
         Continue(t, IF r = "Err" THEN "save_lock" ELSE "dp_relock", NoEvent,
                  [loc[t] EXCEPT !.resp = r])
    /\ UNCHANGED <<Subscriber, Registry, state_lock, clients_lock, node_clients, db, Channels,
                   now, uuid, calls, applied, store_failed, returned_early,
                   last_snapshot, boots, reaper, security>>

\* lib.rs:336-344  relock, commit, drop the guard, broadcast AgentRegistered
DeployRelock(t) ==
    /\ pc[t] = "dp_relock"
    /\ state_lock = NoTask
    /\ ai_agents' = DeployCommit(ai_agents, loc[t].agent_id, loc[t].new_agent, loc[t].resp)
    /\ applied' = Append(applied,
                         Mutation(IF loc[t].agent_id \in DOMAIN ai_agents
                                  THEN "agent_status" ELSE "agent_insert",
                                  loc[t].agent_id))
    /\ Continue(t, "bcast_bus", DeployEvent(loc[t].new_agent), loc[t])
    /\ UNCHANGED <<Subscriber, compute_nodes, state_lock, clients_lock, node_clients, db, Channels,
                   now, uuid, calls, store_failed, returned_early,
                   last_snapshot, boots, reaper, security>>

\* ----------------------------------------------------------------- stop_agent

\* A stop that takes every response for a success.
StopStatusAlwaysStopped(resp_status) == "Stopped"

\* lib.rs:392  the status stop_agent records for a response
StopStatus(resp_status) == IF resp_status = "SUCCESS" THEN "Stopped" ELSE "Error"

\* lib.rs:366-369  lock, look the agent and its node up
StopLock(t) ==
    /\ pc[t] = "st_lock"
    /\ state_lock = NoTask
    /\ state_lock' = t
    /\ LET id == call[t].args.id
       IN IF id \in DOMAIN ai_agents /\ ai_agents[id].assigned_node_id # None
          THEN Continue(t, "st_clients", NoEvent,
                        [loc[t] EXCEPT !.node_id = ai_agents[id].assigned_node_id])
          ELSE Continue(t, "save_lock", NoEvent, loc[t])
    /\ UNCHANGED <<Subscriber, Registry, clients_lock, node_clients, db, Channels, now, uuid,
                   calls, applied, store_failed, returned_early,
                   last_snapshot, boots, reaper, security>>

\* lib.rs:372  let clients = self.node_clients.lock().await
StopClients(t) ==
    /\ response' = NoResponse
    /\ pc[t] = "st_clients"
    /\ clients_lock = NoTask
    /\ clients_lock' = t
    /\ pc' = [pc EXCEPT ![t] = "st_pool"]
    /\ UNCHANGED <<Subscriber, Registry, state_lock, node_clients, db, Channels, now, uuid, calls,
                   call, ev, loc, applied, store_failed, returned_early,
                   last_snapshot, boots, reaper, security>>

\* A stop that carries the pool guard out of the lookup.
StopPoolKeepsGuard(t) ==
    /\ response' = NoResponse
    /\ pc[t] = "st_pool"
    /\ clients_lock' = clients_lock
    /\ IF loc[t].node_id \in DOMAIN node_clients
       THEN /\ state_lock' = NoTask
            /\ pc' = [pc EXCEPT ![t] = "st_rpc"]
       ELSE /\ state_lock' = state_lock
            /\ pc' = [pc EXCEPT ![t] = "save_lock"]
    /\ UNCHANGED <<Subscriber, Registry, node_clients, db, Channels, now, uuid, calls, call, ev,
                   loc, applied, store_failed, returned_early,
                   last_snapshot, boots, reaper, security>>

\* lib.rs:373-377, 409-411
StopPool(t) ==
    /\ response' = NoResponse
    /\ pc[t] = "st_pool"
    /\ clients_lock' = NoTask
    /\ IF loc[t].node_id \in DOMAIN node_clients
       THEN /\ state_lock' = NoTask
            /\ pc' = [pc EXCEPT ![t] = "st_rpc"]
       ELSE /\ state_lock' = state_lock
            /\ pc' = [pc EXCEPT ![t] = "save_lock"]
    /\ UNCHANGED <<Subscriber, Registry, node_clients, db, Channels, now, uuid, calls, call, ev,
                   loc, applied, store_failed, returned_early,
                   last_snapshot, boots, reaper, security>>

\* lib.rs:384  client.stop_agent(Request::new(stop_req)).await
StopRpc(t) ==
    /\ pc[t] = "st_rpc"
    /\ \E r \in RpcResults :
         Continue(t, IF r = "Err" THEN "save_lock" ELSE "st_relock", NoEvent,
                  [loc[t] EXCEPT !.resp = r])
    /\ UNCHANGED <<Subscriber, Registry, state_lock, clients_lock, node_clients, db, Channels,
                   now, uuid, calls, applied, store_failed, returned_early,
                   last_snapshot, boots, reaper, security>>

\* lib.rs:390-403  relock; an agent still registered gets the status of the
\* response and AgentStatusUpdate is broadcast after the guard is dropped
StopRelock(t) ==
    /\ pc[t] = "st_relock"
    /\ state_lock = NoTask
    /\ LET id == call[t].args.id
       IN IF id \in DOMAIN ai_agents
          THEN /\ ai_agents' = [ai_agents EXCEPT ![id].status = StopStatus(loc[t].resp)]
               /\ applied' = Append(applied, Mutation("agent_status", id))
               /\ Continue(t, "bcast_bus",
                           AgentStatusUpdate(id, StopStatus(loc[t].resp),
                                             ai_agents[id].current_task,
                                             ai_agents[id].task_progress), loc[t])
          ELSE /\ Continue(t, "save_lock", NoEvent, loc[t])
               /\ UNCHANGED <<ai_agents, applied>>
    /\ UNCHANGED <<Subscriber, compute_nodes, state_lock, clients_lock, node_clients, db, Channels,
                   now, uuid, calls, store_failed, returned_early,
                   last_snapshot, boots, reaper, security>>

\* -------------------------------------------------------------- migrate_agent

\* A migration that reassigns the agent and leaves its status.
MigratedAgentKeepsStatus(agent, destination_node_id) ==
    [agent EXCEPT !.assigned_node_id = destination_node_id]

\* lib.rs:433-434
MigratedAgent(agent, destination_node_id) ==
    [agent EXCEPT !.assigned_node_id = destination_node_id, !.status = "Migrating"]

\* lib.rs:425-451  lock; an unknown destination or agent returns; otherwise
\* the agent is reassigned, the guard dropped and the update broadcast
MigrateAgent(t) ==
    /\ pc[t] = "mg_lock"
    /\ state_lock = NoTask
    /\ LET id == call[t].args.id
           dest == call[t].args.dest
       IN IF dest \in DOMAIN compute_nodes /\ id \in DOMAIN ai_agents
          THEN /\ ai_agents' = [ai_agents EXCEPT ![id] = MigratedAgent(@, dest)]
               /\ applied' = Append(applied, Mutation("agent_reassign", id))
               /\ Continue(t, "bcast_bus",
                           AgentStatusUpdate(id, "Migrating", ai_agents[id].current_task,
                                             ai_agents[id].task_progress), loc[t])
               /\ UNCHANGED returned_early
          ELSE /\ Return(t)
               /\ returned_early' = returned_early \cup {call[t].op}
               /\ UNCHANGED <<ai_agents, applied>>
    /\ UNCHANGED <<Subscriber, compute_nodes, state_lock, clients_lock, node_clients, db, Channels,
                   now, uuid, calls, store_failed, last_snapshot, boots, reaper, security>>

\* ------------------------------------------------------------- specification

Next ==
    \/ Tick
    \/ \E t \in Tasks :
         \/ Call(t)
         \/ Cancel(t)
         \/ BroadcastBus(t)
         \/ BroadcastStream(t)
         \/ SaveLock(t)
         \/ SaveWrite(t)
         \/ RegisterNodeLock(t)
         \/ RegisterNodeDial(t)
         \/ RegisterNodeClients(t)
         \/ RegisterNodePool(t)
         \/ UpdateNodeStatus(t)
         \/ RegisterAiAgent(t)
         \/ UpdateAiAgentStatus(t)
         \/ IssueCommand(t)
         \/ PruneLock(t)
         \/ PruneRemove(t)
         \/ PruneAgents(t)
         \/ DeployLock(t)
         \/ DeployClients(t)
         \/ DeployPool(t)
         \/ DeployRpc(t)
         \/ DeployRelock(t)
         \/ StopLock(t)
         \/ StopClients(t)
         \/ StopPool(t)
         \/ StopRpc(t)
         \/ StopRelock(t)
         \/ MigrateAgent(t)

Spec == Init /\ [][Next]_vars

\* ---------------------------------------------------------------- subscribers

\* Number of events a broadcast channel retains for its receivers (the
\* program creates its channels with broadcast::channel(100): lib.rs:554, 556;
\* the model scales the number down).
ChannelCapacity == 2

\* The channel the subscriber reads: the websocket forwarder (main.rs:153)
\* reads event_bus, the gRPC streams (lib.rs:530, main.rs:121) event_stream.
SubLog == IF sub_kind = "ws" THEN event_bus ELSE event_stream

\* Receiver::recv finds its next event overwritten: it is more than the
\* capacity behind the tail.
Lagged(next, tail) == next < tail - ChannelCapacity + 1

\* A receiver that resumes after everything sent so far.
LagResumeAtTail(tail) == tail + 1

\* After Lagged the receiver resumes at the oldest event retained.
LagResume(tail) == tail - ChannelCapacity + 1

\* A receiver that does not move on.
NextCursorStuck(next) == next

\* After an event the receiver is at the one that follows.
NextCursor(next) == next + 1

\* Whether the subscriber goes on after a Lagged error: the try_stream of
\* lib.rs:531-536 ends at the `?`, the `while let Ok` of main.rs:168 ends, the
\* BroadcastStream of main.rs:122-125 maps the error and goes on.
SurvivesLag(kind) == kind = "grpc_main"

\* rx.recv().await of a subscriber (lib.rs:533, main.rs:122, main.rs:168);
\* the websocket forwarder also ends when its socket.send fails (main.rs:170).
Recv ==
    /\ response' = NoResponse
    /\ sub_open
    /\ sub_next <= Len(SubLog)
    /\ IF Lagged(sub_next, Len(SubLog))
       THEN /\ sub_next' = LagResume(Len(SubLog))
            /\ sub_lags' = sub_lags + 1
            /\ sub_open' = SurvivesLag(sub_kind)
            /\ sub_got' = sub_got
       ELSE /\ sub_next' = NextCursor(sub_next)
            /\ sub_got' = Append(sub_got, [pos |-> sub_next, msg |-> SubLog[sub_next]])
            /\ sub_lags' = sub_lags
            /\ \E sent \in BOOLEAN :
                 /\ ~sent => sub_kind = "ws"
                 /\ sub_open' = sent
    /\ UNCHANGED <<Registry, state_lock, clients_lock, node_clients, db, Channels, now,
                   uuid, calls, pc, call, ev, loc, sub_kind, late_sub, applied, store_failed,
                   returned_early, last_snapshot, boots, reaper, security>>

\* One subscriber, subscribed before any operation.
InitStream == Boot({"grpc_lib", "grpc_main", "ws"})

NextStream == Next \/ Recv

SpecStream == InitStream /\ [][NextStream]_vars

\* -------------------------------------------------------------------- restart

\* The process ends, whatever its tasks are doing, and is started again over
\* the same store: FabricManager::new (lib.rs:71-86) loads the registry from
\* fabric_state, with new channels, an empty client pool and both locks free.
Restart ==
    /\ boots < MaxRestarts
    /\ boots' = boots + 1
    /\ compute_nodes' = load_state_from_db(db).compute_nodes
    /\ ai_agents' = load_state_from_db(db).ai_agents
    /\ state_lock' = NoTask
    /\ clients_lock' = NoTask
    /\ node_clients' = [x \in {} |-> ""]
    /\ event_bus' = <<>>
    /\ event_stream' = <<>>
    /\ command_queue' = <<>>
    /\ pc' = [t \in Tasks |-> "idle"]
    /\ call' = [t \in Tasks |-> NoCall]
    /\ ev' = [t \in Tasks |-> NoEvent]
    /\ loc' = [t \in Tasks |-> NoLoc]
    /\ applied' = <<>>
    /\ response' = NoResponse
    /\ UNCHANGED <<Subscriber, db, command_rx_open, now, uuid, calls, store_failed,
                   returned_early, last_snapshot, reaper, security>>

NextRestart == Next \/ Restart

SpecRestart == Init /\ [][NextRestart]_vars

\* ------------------------------------------------------------- projection

\* The events convert_event is applied to: one of each variant, and an agent
\* status update for each combination of task and progress present or absent
\* (progress 0, 0.05 and 0.5).
ConvertInputs ==
    {NodeRegistered(ComputeNode("n1", StartTime, "Online", "CPU:4,RAM:16GB", ProxyAddress)),
     NodeStatusUpdate("n1", "Degraded"),
     NodePruned("n2"),
     AgentRegistered(AIAgent("a1", "Synthesizer", "Synthesizer", "n1", "Idle", None,
                             NoProgress)),
     FabricCommandIssued("REBOOT_NODE", "n1")}
    \cup {AgentStatusUpdate("a1", "Processing", task, progress) :
            task \in {None, "TaskA"}, progress \in {NoProgress, 0, 5, 50}}

\* FabricManager::broadcast_event (lib.rs:175-186) on its own: the event goes
\* out on the internal channel, its projection on the external one.
ConvertEvent ==
    /\ Len(event_stream) < MaxConverts
    /\ \E event \in ConvertInputs :
         /\ event_bus' = Append(event_bus, event)
         /\ uuid' = uuid + 1
         /\ event_stream' = Append(event_stream, convert_event(event, uuid + 1, now))
    /\ response' = NoResponse
    /\ UNCHANGED <<compute_nodes, ai_agents, state_lock, clients_lock, node_clients,
                   db, now, calls, pc, call, ev, loc, command_queue, command_rx_open,
                   Subscriber, applied, store_failed, returned_early, last_snapshot,
                   boots, reaper, security>>

NextConvert == ConvertEvent

SpecConvert == Init /\ [][NextConvert]_vars

\* ------------------------------------------------------------------ fan-out

\* The events published to the subscribers.
FanoutInputs == {NodePruned("n1"), FabricCommandIssued("REBOOT_NODE", "n1")}

\* FabricManager::broadcast_event (lib.rs:175-186) called by a producer: both
\* sends are synchronous and take no account of the receivers there are.
Publish ==
    /\ Len(event_stream) < MaxPublishes
    /\ \E event \in FanoutInputs :
         /\ event_bus' = Append(event_bus, event)
         /\ uuid' = uuid + 1
         /\ event_stream' = Append(event_stream, convert_event(event, uuid + 1, now))
    /\ response' = NoResponse
    /\ UNCHANGED <<compute_nodes, ai_agents, state_lock, clients_lock, node_clients,
                   db, now, calls, pc, call, ev, loc, command_queue, command_rx_open,
                   Subscriber, applied, store_failed, returned_early, last_snapshot,
                   boots, reaper, security>>

\* lib.rs:530  stream_fabric_events: event_stream_tx.subscribe() gives a
\* receiver that starts at the next event sent.
Subscribe ==
    /\ late_sub = NoSubscription
    /\ late_sub' = [from |-> Len(event_stream) + 1, next |-> Len(event_stream) + 1,
                    got |-> <<>>, lags |-> 0, open |-> TRUE]
    /\ response' = NoResponse
    /\ UNCHANGED <<Registry, state_lock, clients_lock, node_clients, db, Channels, now,
                   uuid, calls, pc, call, ev, loc, sub_kind, sub_next, sub_got, sub_lags,
                   sub_open, applied, store_failed, returned_early, last_snapshot, boots, reaper, security>>

\* lib.rs:531-536  the stream of that call: rx.recv().await, the event
\* yielded, the stream ended by the `?` at a Lagged error.
RecvLate ==
    /\ late_sub.open
    /\ late_sub.next <= Len(event_stream)
    /\ late_sub' =
         IF Lagged(late_sub.next, Len(event_stream))
         THEN [late_sub EXCEPT !.next = LagResume(Len(event_stream)),
                               !.lags = @ + 1,
                               !.open = SurvivesLag("grpc_lib")]
         ELSE [late_sub EXCEPT !.next = NextCursor(@),
                               !.got = Append(@, [pos |-> late_sub.next,
                                                  msg |-> event_stream[late_sub.next]])]
    /\ response' = NoResponse
    /\ UNCHANGED <<Registry, state_lock, clients_lock, node_clients, db, Channels, now,
                   uuid, calls, pc, call, ev, loc, sub_kind, sub_next, sub_got, sub_lags,
                   sub_open, applied, store_failed, returned_early, last_snapshot, boots, reaper, security>>

NextFanout == Publish \/ Recv \/ Subscribe \/ RecvLate

SpecFanout == InitStream /\ [][NextFanout]_vars

\* --------------------------------------------------------------------- reaper

\* main.rs:324  Duration::from_secs(300)
REAPER_PERIOD_MINUTES == 5
ReaperPeriod == REAPER_PERIOD_MINUTES * TicksPerMinute

\* main.rs:218  the task periodic_pruner runs on
ReaperTask == "t1"

\* tokio::time::interval as main.rs:324 creates it, with the default
\* MissedTickBehavior::Burst: the deadline after the one at `deadline`, when
\* that tick completes at time t.
next_timeout(deadline, t, period) == deadline + period

\* main.rs:326-328  interval.tick().await completes once its deadline is
\* reached (the first at once), and prune_stale_entities is called.
ReaperTick ==
    /\ pc[ReaperTask] = "idle"
    /\ now >= reaper.deadline
    /\ reaper' = [deadline |-> next_timeout(reaper.deadline, now, ReaperPeriod),
                  runs |-> reaper.runs + 1]
    /\ call' = [call EXCEPT ![ReaperTask] = Request("prune_stale_entities", NoArgs)]
    /\ pc' = [pc EXCEPT ![ReaperTask] = EntryPc("prune_stale_entities")]
    /\ response' = NoResponse
    /\ UNCHANGED <<Subscriber, Registry, state_lock, clients_lock, node_clients, db,
                   Channels, now, uuid, calls, ev, loc, applied, store_failed,
                   returned_early, last_snapshot, boots, security>>

\* Time passes, while the pruner waits for a tick that is not yet due or while
\* its prune runs; a tick that is due with the pruner waiting for it
\* completes before the clock moves on.
ReaperClock ==
    /\ now < StartTime + MaxPeriods * ReaperPeriod
    /\ ~(pc[ReaperTask] = "idle" /\ now >= reaper.deadline)
    /\ now' = now + 1
    /\ response' = NoResponse
    /\ UNCHANGED <<Subscriber, Registry, state_lock, clients_lock, node_clients, db,
                   Channels, uuid, calls, pc, call, ev, loc, applied, store_failed,
                   returned_early, last_snapshot, boots, reaper, security>>

\* periodic_pruner alone: its ticks, and the steps of the prune it awaits
\* (lib.rs:264-294; save_state at lib.rs:290 never gets the lock, see
\* SaveLock, and has no step here).
NextReaper ==
    \/ ReaperTick
    \/ ReaperClock
    \/ PruneLock(ReaperTask)
    \/ PruneRemove(ReaperTask)
    \/ PruneAgents(ReaperTask)
    \/ BroadcastBus(ReaperTask)
    \/ BroadcastStream(ReaperTask)

SpecReaper == Init /\ [][NextReaper]_vars

\* ------------------------------------------------------- stop against migrate

\* Number of method calls in one behaviour of the stop-against-migrate runs.
MaxStopCalls == 4

\* The calls of a run in which an agent is stopped while it is moved: the two
\* nodes register, n1 with a proxy address and n2 without, a1 is stopped and
\* a1 is migrated to n2.
StopRequests(t) ==
    {r \in Requests(t) :
       \/ r.op = "register_node" /\ r.args.node.status = "Online"
       \/ r.op = "stop_agent" /\ r.args.id = "a1"
       \/ r.op = "migrate_agent" /\ r.args.id = "a1" /\ r.args.dest = "n2"}

\* A caller invokes register_node, stop_agent or migrate_agent; none of these
\* requests is one a handler rejects.
CallStop(t) ==
    /\ pc[t] = "idle"
    /\ calls < MaxStopCalls
    /\ \A u \in Tasks : pc[u] = "idle" => TaskOrder[t] <= TaskOrder[u]
    /\ \E r \in StopRequests(now) :
         /\ response' = NoResponse
         /\ call' = [call EXCEPT ![t] = r]
         /\ pc' = [pc EXCEPT ![t] = EntryPc(r.op)]
    /\ calls' = calls + 1
    /\ UNCHANGED <<Subscriber, Registry, state_lock, clients_lock, node_clients, db, Channels,
                   now, uuid, ev, loc, applied, store_failed, returned_early,
                   last_snapshot, boots, reaper, security>>

NextStop ==
    \E t \in Tasks :
      \/ CallStop(t)
      \/ Cancel(t)
      \/ BroadcastBus(t)
      \/ BroadcastStream(t)
      \/ SaveLock(t)
      \/ SaveWrite(t)
      \/ RegisterNodeLock(t)
      \/ RegisterNodeDial(t)
      \/ RegisterNodeClients(t)
      \/ RegisterNodePool(t)
      \/ StopLock(t)
      \/ StopClients(t)
      \/ StopPool(t)
      \/ StopRpc(t)
      \/ StopRelock(t)
      \/ MigrateAgent(t)

SpecStop == Init /\ [][NextStop]_vars

\* ------------------------------------------------ SecurityManager operations

\* Everything but the SecurityManager.
Fabric ==
    <<compute_nodes, ai_agents, state_lock, clients_lock, node_clients, db,
      event_bus, event_stream, now, uuid, calls, pc, call, ev, loc,
      command_queue, command_rx_open, sub_kind, sub_next, sub_got, sub_lags,
      sub_open, late_sub, applied, store_failed, returned_early, last_snapshot,
      boots, reaper, response>>

\* The calls a holder of a clone of the SecurityManager can make.
SecurityRequests ==
    {[op |-> "generate_token", token |-> ""]}
    \cup {[op |-> o, token |-> s] :
            o \in {"validate_token", "revoke_token"}, s \in TokenStrings}

\* The first await of each method.
SecurityEntryPc(name) ==
    CASE name = "generate_token" -> "gt_active"
      [] name = "validate_token" -> "vt_revoked"
      [] name = "revoke_token" -> "rv_active"

\* A caller invokes generate_token, validate_token or revoke_token.
SecurityCall(t) ==
    /\ security.pc[t] = "idle"
    /\ security.calls < MaxSecurityCalls
    /\ \A u \in Tasks : security.pc[u] = "idle" => TaskOrder[t] <= TaskOrder[u]
    /\ \E r \in SecurityRequests :
         /\ r.op = "generate_token" =>
              security.minted
                + Cardinality({u \in Tasks : security.pc[u] = "gt_active"}) < MaxTokens
         /\ security' = [security EXCEPT !.pc[t] = SecurityEntryPc(r.op),
                                         !.call[t] = r,
                                         !.result[t] = "",
                                         !.calls = @ + 1]
    /\ UNCHANGED Fabric

\* The method of task t returns `result`; its guards are gone.
SecurityReturn(s, t, result) ==
    [s EXCEPT !.pc[t] = "idle", !.call[t] = NoSecurityCall, !.removed[t] = 0,
              !.result[t] = result]

\* security.rs:153-169  generate_token: compose the token, encode it, take
\* the write lock of active_tokens, insert, return the string
GenerateToken(t) ==
    /\ security.pc[t] = "gt_active"
    /\ CanWrite(security.active_lock)
    /\ LET token == AuthToken(security.minted + 1, now + SessionTimeout)
       IN security' =
            SecurityReturn(
              [security EXCEPT !.active_tokens = MapInsert(@, encode_token(token), token),
                               !.minted = @ + 1],
              t, encode_token(token))
    /\ UNCHANGED Fabric

\* security.rs:175  let revoked_tokens = self.revoked_tokens.read().await
ValidateTokenRevoked(t) ==
    /\ security.pc[t] = "vt_revoked"
    /\ CanRead(security.revoked_lock)
    /\ security' = [security EXCEPT !.revoked_lock.readers = @ \cup {t},
                                    !.pc[t] = "vt_active"]
    /\ UNCHANGED Fabric

\* security.rs:178-191  what validate_token answers for the string, read
\* from the two tables at clock value t
ValidateResult(active, revoked, token_string, t) ==
    IF token_string \notin DOMAIN active THEN "Token not found"
    ELSE IF \E i \in DOMAIN revoked : revoked[i] = active[token_string].token_id
         THEN "Token has been revoked"
         ELSE IF t > active[token_string].expires_at THEN "Token has expired"
              ELSE "Ok"

\* security.rs:177-191  the read lock of active_tokens, taken with the read
\* guard of revoked_tokens alive; the lookup and the checks; both guards go
\* out of scope at the return
ValidateTokenActive(t) ==
    /\ security.pc[t] = "vt_active"
    /\ CanRead(security.active_lock)
    /\ security' =
         SecurityReturn(
           [security EXCEPT !.revoked_lock.readers = @ \ {t}],
           t, ValidateResult(security.active_tokens, security.revoked_tokens,
                             security.call[t].token, now))
    /\ UNCHANGED Fabric

\* security.rs:202-204  the write lock of active_tokens; remove the string;
\* with no entry for it the method returns Ok
RevokeTokenActive(t) ==
    /\ security.pc[t] = "rv_active"
    /\ CanWrite(security.active_lock)
    /\ LET s == security.call[t].token
       IN IF s \in DOMAIN security.active_tokens
          THEN security' =
                 [security EXCEPT !.active_tokens = MapRemove(@, s),
                                  !.active_lock.writer = t,
                                  !.removed[t] = security.active_tokens[s].token_id,
                                  !.pc[t] = "rv_revoked"]
          ELSE security' = SecurityReturn(security, t, "Ok")
    /\ UNCHANGED Fabric

\* security.rs:205-209  the write lock of revoked_tokens, taken with the write
\* guard of active_tokens alive; push the token id; both guards go out of scope
RevokeTokenRevoked(t) ==
    /\ security.pc[t] = "rv_revoked"
    /\ CanWrite(security.revoked_lock)
    /\ security' =
         SecurityReturn(
           [security EXCEPT !.revoked_tokens = Append(@, security.removed[t]),
                            !.active_lock.writer = NoTask],
           t, "Ok")
    /\ UNCHANGED Fabric

NextSecurity ==
    \E t \in Tasks :
      \/ SecurityCall(t)
      \/ GenerateToken(t)
      \/ ValidateTokenRevoked(t)
      \/ ValidateTokenActive(t)
      \/ RevokeTokenActive(t)
      \/ RevokeTokenRevoked(t)

SpecSecurity == Init /\ [][NextSecurity]_vars

\* ===================================================================== claims

\* Task t takes a step.
Acts(t) == pc'[t] # pc[t]

\* Number of entries of seq that satisfy P.
Count(seq, P(_)) == Cardinality({i \in DOMAIN seq : P(seq[i])})

\* ---------------------------------------------------------------------- C1

\* C1: every call to a FabricManager operation returns and leaves the
\* registry lock free; no reachable state has a task waiting forever for the
\* registry lock.  A task that waits in save_state for the lock which its own
\* method still holds waits forever, so no task is ever in that position.
C1_NoTaskWaitsForeverForRegistryLock ==
    \A t \in Tasks : ~(pc[t] = "save_lock" /\ state_lock = t)

\* ---------------------------------------------------------------------- C2

\* C2: at every quiescent state (no operation in progress, no store-write
\* failure) the value under fabric_state decodes to exactly the in-memory
\* registry.
C2_QuiescentStoreDecodesToRegistry ==
    ((\A t \in Tasks : pc[t] = "idle") /\ ~store_failed)
      => load_state_from_db(db) = FabricState(compute_nodes, ai_agents)

\* ---------------------------------------------------------------------- C3

\* The event variant that answers to a kind of mutation; agent removal has none.
ExpectedVariant(kind) ==
    CASE kind = "node_insert" -> "NodeRegistered"
      [] kind = "node_status" -> "NodeStatusUpdate"
      [] kind = "node_remove" -> "NodePruned"
      [] kind = "agent_insert" -> "AgentRegistered"
      [] kind = "agent_status" -> "AgentStatusUpdate"
      [] kind = "agent_reassign" -> "AgentStatusUpdate"
      [] OTHER -> "no such event"

EventKey(e) == <<e.variant, e.id>>
MutationKey(m) == <<ExpectedVariant(m.kind), m.id>>
WireKey(w) == <<w.event_type, w.message>>

\* C3: every accepted mutation of the registry publishes exactly one
\* InternalFabricEvent on the internal channel and exactly one projected
\* FabricEvent on the external channel, and every event other than
\* FabricCommandIssued answers to a mutation that was applied.  Counted per
\* (variant, id): the mutations applied are the events sent plus those a task
\* is about to send; and the wire events sent are the projections of the
\* internal events sent, less those a task is about to project.
C3_OneEventPerMutation ==
    /\ \A k \in {MutationKey(applied[i]) : i \in DOMAIN applied}
              \cup {EventKey(event_bus[i]) : i \in DOMAIN event_bus}
              \cup {EventKey(ev[t]) : t \in {u \in Tasks : pc[u] = "bcast_bus"}} :
         k[1] # "FabricCommandIssued" =>
           Count(applied, LAMBDA m : MutationKey(m) = k)
             = Count(event_bus, LAMBDA e : EventKey(e) = k)
               + Cardinality({t \in Tasks : pc[t] = "bcast_bus" /\ EventKey(ev[t]) = k})
    /\ \A w \in {WireKey(event_stream[i]) : i \in DOMAIN event_stream}
              \cup {WireKey(convert_event(event_bus[i], 0, 0)) : i \in DOMAIN event_bus} :
         Count(event_bus, LAMBDA e : WireKey(convert_event(e, 0, 0)) = w)
           = Count(event_stream, LAMBDA x : WireKey(x) = w)
             + Cardinality({t \in Tasks : pc[t] = "bcast_stream"
                                          /\ WireKey(convert_event(ev[t], 0, 0)) = w})

\* C3 witness: a node mutation and an agent mutation have both been applied
\* and their events sent on both channels.
C3_Witness ==
    /\ \A t \in Tasks : pc[t] \notin {"bcast_bus", "bcast_stream"}
    /\ \E i, j \in DOMAIN applied :
         applied[i].kind = "node_insert" /\ applied[j].kind = "agent_insert"
    /\ Len(event_bus) = 2
    /\ Len(event_stream) = 2

\* ---------------------------------------------------------------------- C4

\* C4: update_node_status(id, s) applied at time T to a registered node leaves
\* the node stored under id with status s and last_seen T, its node_type,
\* capabilities, ip_address and proxy_listen_address unchanged (and no other
\* node touched).
C4_UpdateSetsStatusAndLastSeenOnly ==
    [][\A t \in Tasks :
         (pc[t] = "uns_lock" /\ Acts(t) /\ call[t].args.id \in DOMAIN compute_nodes) =>
           LET id == call[t].args.id
               old == compute_nodes[id]
           IN /\ DOMAIN compute_nodes' = DOMAIN compute_nodes
              /\ compute_nodes'[id] =
                   [id |-> old.id, node_type |-> old.node_type, last_seen |-> now,
                    status |-> call[t].args.status, capabilities |-> old.capabilities,
                    ip_address |-> old.ip_address,
                    proxy_listen_address |-> old.proxy_listen_address]
              /\ \A other \in (DOMAIN compute_nodes) \ {id} :
                   compute_nodes'[other] = compute_nodes[other]
    ]_vars

\* C4 witness: update_node_status has just been applied to a node that was
\* last seen before now; the node carries the new status and the time.
C4_Witness ==
    \E t \in Tasks :
      /\ call[t].op = "update_node_status"
      /\ pc[t] = "bcast_bus"
      /\ now > StartTime
      /\ compute_nodes[call[t].args.id].status = call[t].args.status
      /\ compute_nodes[call[t].args.id].last_seen = now

\* ---------------------------------------------------------------------- C5

\* Task t runs prune_stale_entities and is past its node-removal loop.
PruneDoneWithNodes(t) ==
    /\ call[t].op = "prune_stale_entities"
    /\ pc[t] \in {"pr_agents", "save_lock", "save_write"}

\* C5: when prune_stale_entities runs at time now, every node whose age
\* now - last_seen is strictly greater than 5 minutes, at any granularity
\* finer than a minute, is absent from the registry once the prune is through.
C5_EveryNodeOlderThanFiveMinutesPruned ==
    \A t \in Tasks :
      PruneDoneWithNodes(t) =>
        \A id \in DOMAIN compute_nodes :
          ~(loc[t].now - compute_nodes[id].last_seen > NODE_STALE_MINUTES * TicksPerMinute)

\* ---------------------------------------------------------------------- C6

\* C6: deploy_agent never inserts an agent unless, when the call examined the
\* registry, the target was a key of the nodes map with status exactly
\* "Online"; for an absent target or any other status no step of the call
\* changes the agents map.
C6_DeployInsertsOnlyForOnlineTarget ==
    [][\A t \in Tasks :
         (call[t].op = "deploy_agent" /\ Acts(t) /\ ai_agents' # ai_agents)
           => loc[t].seen = "Online"
    ]_vars

\* C6 witness: a deploy_agent call that saw its target Online has inserted
\* its agent.
C6_Witness ==
    \E t \in Tasks :
      /\ call[t].op = "deploy_agent"
      /\ pc[t] = "bcast_bus"
      /\ loc[t].seen = "Online"
      /\ loc[t].agent_id \in DOMAIN ai_agents

\* ---------------------------------------------------------------------- C8

\* The status the claim gives the deployed agent for a response status.
ClaimedDeployStatus(resp_status) ==
    IF resp_status = "SUCCESS" THEN "Running" ELSE "Failed"

\* C8: when deploy_agent targets an Online node that has a client and the
\* DeployAgent RPC returns a response, the registry afterwards contains the
\* newly minted agent with status "Running" for response status "SUCCESS" and
\* "Failed" otherwise, and the AgentRegistered event published carries that
\* final agent.
C8_DeployedAgentIsRunningOrFailed ==
    \A t \in Tasks :
      (call[t].op = "deploy_agent" /\ pc[t] = "bcast_bus") =>
        /\ loc[t].agent_id \in DOMAIN ai_agents
        /\ ai_agents[loc[t].agent_id].status = ClaimedDeployStatus(loc[t].resp)
        /\ ev[t].variant = "AgentRegistered"
        /\ ev[t].agent.status = ClaimedDeployStatus(loc[t].resp)

\* ---------------------------------------------------------------------- C9

\* Task t runs deploy_agent, saw its target Online, found no client in the
\* pool and is on its way out.
DeployWithoutClient(t) ==
    /\ call[t].op = "deploy_agent"
    /\ loc[t].seen = "Online"
    /\ loc[t].resp = ""
    /\ pc[t] \in {"save_lock", "save_write"}

\* C9: deploy_agent onto an Online node for which the pool has no client
\* inserts no agent, publishes no AgentRegistered event, and returns: it is
\* never left waiting for the registry lock that it holds itself.
C9_DeployWithoutClientInsertsNothingAndReturns ==
    \A t \in Tasks :
      DeployWithoutClient(t) =>
        /\ loc[t].agent_id \notin DOMAIN ai_agents
        /\ \A i \in DOMAIN event_bus :
             ~(event_bus[i].variant = "AgentRegistered"
               /\ event_bus[i].id = loc[t].agent_id)
        /\ ~(pc[t] = "save_lock" /\ state_lock = t)

\* ---------------------------------------------------------------------- C10

\* C10: update_node_status for a node id that is not in the registry leaves
\* the nodes and agents maps unchanged, publishes no event on either channel,
\* writes no snapshot, and has returned with that.
C10_UpdateOfUnknownNodeChangesNothing ==
    [][\A t \in Tasks :
         (pc[t] = "uns_lock" /\ Acts(t) /\ call[t].args.id \notin DOMAIN compute_nodes) =>
           /\ UNCHANGED <<compute_nodes, ai_agents, event_bus, event_stream, db>>
           /\ pc'[t] = "idle"
    ]_vars

\* C10 witness: update_node_status has returned for an id the registry did
\* not hold, the registry not empty and every task idle again.
C10_Witness ==
    /\ "update_node_status" \in returned_early
    /\ compute_nodes # EmptyMap
    /\ \A t \in Tasks : pc[t] = "idle"

\* ---------------------------------------------------------------------- C7

\* C7: for each channel, what a subscriber that subscribed before any
\* operation receives is the channel's publish order with zero or more
\* lag-dropped gaps: every event received is the one published at its
\* position, positions strictly increase (nothing reordered or duplicated),
\* and a position is skipped only where a Lagged error was received.
C7_SubscriberSeesPublishOrder ==
    /\ \A i \in DOMAIN sub_got :
         /\ sub_got[i].pos \in DOMAIN SubLog
         /\ sub_got[i].msg = SubLog[sub_got[i].pos]
    /\ \A i, j \in DOMAIN sub_got : i < j => sub_got[i].pos < sub_got[j].pos
    /\ Cardinality({i \in DOMAIN sub_got :
                      sub_got[i].pos # (IF i = 1 THEN 1 ELSE sub_got[i - 1].pos + 1)})
         <= sub_lags

\* C7 witness: a subscriber that lagged has gone on to receive the events
\* after the gap.
C7_Witness ==
    /\ sub_lags = 1
    /\ Len(sub_got) >= 2
    /\ sub_got[1].pos > 1

\* --------------------------------------------------------------------- C11

\* The nodes prune_stale_entities has removed so far.
PrunedIds == {applied[i].id : i \in {j \in DOMAIN applied : applied[j].kind = "node_remove"}}

\* C11: for every node removed by prune_stale_entities exactly one
\* NodePruned(id) is published, projected as NODE_PRUNED with the message
\* "Node pruned: <id>", and the prune goes on to complete with a snapshot that
\* no longer holds the node: it is never left waiting in save_state for the
\* registry lock it holds itself, and with no prune in progress and no write
\* failed the stored registry holds no pruned node that the registry lacks.
C11_PrunedNodeHasOneEventAndLeavesSnapshot ==
    /\ \A t \in Tasks :
         (PruneDoneWithNodes(t) /\ loc[t].pruned) =>
           /\ \A id \in PrunedIds :
                /\ Count(event_bus, LAMBDA e : e = NodePruned(id)) = 1
                /\ Count(event_stream,
                         LAMBDA w : WireKey(w) = <<"NODE_PRUNED", "Node pruned: " \o id>>) = 1
           /\ ~(pc[t] = "save_lock" /\ state_lock = t)
    /\ ((\A t \in Tasks : call[t].op # "prune_stale_entities") /\ ~store_failed) =>
         \A id \in PrunedIds \ DOMAIN compute_nodes :
           id \notin DOMAIN load_state_from_db(db).compute_nodes

\* --------------------------------------------------------------------- C12

\* A FabricManager has just been constructed with this registry and these
\* channels over a store holding this completed snapshot.
ConstructedFrom(snapshot, nodes, agents, bus, stream) ==
    /\ snapshot.held => FabricState(nodes, agents) = snapshot.state
    /\ bus = <<>>
    /\ stream = <<>>

ClaimedStopStatus(resp_status) == IF resp_status = "SUCCESS" THEN "Stopped" ELSE "Error"

\* C13: for an agent that exists, is assigned to a node and whose node has a
\* client, when the StopAgent RPC returns a response stop_agent sets the
\* agent's status to "Stopped" for response status "SUCCESS" and to "Error"
\* otherwise (and nothing else in the agents map), and publishes exactly one
\* AgentStatusUpdate carrying that status: it broadcasts only after that
\* update, once on each channel, and goes on to the snapshot.
C13_StopSetsStoppedOrError ==
    [][\A t \in Tasks :
         (call[t].op = "stop_agent" /\ Acts(t)) =>
           LET id == call[t].args.id
               claimed == ClaimedStopStatus(loc[t].resp)
           IN /\ pc[t] = "st_relock" =>
                   /\ id \in DOMAIN ai_agents
                   /\ ai_agents' = [ai_agents EXCEPT ![id].status = claimed]
                   /\ pc'[t] = "bcast_bus"
                   /\ ev'[t].variant = "AgentStatusUpdate"
                   /\ ev'[t].id = id
                   /\ ev'[t].status = claimed
              /\ pc'[t] = "bcast_bus" => pc[t] = "st_relock"
              /\ pc[t] = "bcast_bus" =>
                   /\ event_bus' = Append(event_bus, ev[t])
                   /\ pc'[t] = "bcast_stream"
              /\ pc[t] = "bcast_stream" =>
                   /\ Len(event_stream') = Len(event_stream) + 1
                   /\ event_stream'[Len(event_stream')].event_type = "AGENT_STATUS_UPDATE"
                   /\ pc'[t] = "save_lock"
    ]_vars

\* C13 witness: the StopAgent RPC answered with a failure, and stop_agent has
\* recorded "Error" for the agent and is about to publish it.
C13_Witness ==
    \E t \in Tasks :
      /\ call[t].op = "stop_agent"
      /\ pc[t] = "bcast_bus"
      /\ loc[t].resp = "FAILURE"
      /\ ai_agents[call[t].args.id].status = "Error"
      /\ ev[t].status = "Error"

\* --------------------------------------------------------------------- C14

\* C14: migrate_agent(a, d) with d a registered node and a a registered agent
\* sets a.assigned_node_id = d and a.status = "Migrating" (nothing else in the
\* registry), publishes exactly one AgentStatusUpdate for a and snapshots,
\* without any outbound RPC; if d is not a registered node or a is not a
\* registered agent the registry is unchanged, no event is published and the
\* call returns.
C14_MigrateReassignsOrChangesNothing ==
    [][\A t \in Tasks :
         (call[t].op = "migrate_agent" /\ Acts(t)) =>
           LET a == call[t].args.id
               d == call[t].args.dest
           IN /\ pc[t] = "mg_lock" =>
                   IF d \in DOMAIN compute_nodes /\ a \in DOMAIN ai_agents
                   THEN /\ ai_agents' = [ai_agents EXCEPT ![a].assigned_node_id = d,
                                                         ![a].status = "Migrating"]
                        /\ compute_nodes' = compute_nodes
                        /\ pc'[t] = "bcast_bus"
                        /\ ev'[t].variant = "AgentStatusUpdate"
                        /\ ev'[t].id = a
                        /\ ev'[t].status = "Migrating"
                   ELSE /\ UNCHANGED <<compute_nodes, ai_agents, event_bus, event_stream, db>>
                        /\ pc'[t] = "idle"
              /\ pc[t] = "bcast_bus" =>
                   /\ event_bus' = Append(event_bus, ev[t])
                   /\ pc'[t] = "bcast_stream"
              /\ pc[t] = "bcast_stream" =>
                   /\ Len(event_stream') = Len(event_stream) + 1
                   /\ event_stream'[Len(event_stream')].event_type = "AGENT_STATUS_UPDATE"
                   /\ pc'[t] = "save_lock"
                   /\ state_lock' # t
              /\ pc[t] = "save_lock" => pc'[t] = "save_write"
              /\ pc[t] = "save_write" =>
                   /\ store_failed' = store_failed =>
                        db' = bincode_serialize(FabricState(compute_nodes, ai_agents))
                   /\ pc'[t] = "idle"
              /\ pc'[t] \in {"bcast_bus", "bcast_stream", "save_lock", "save_write", "idle"}
    ]_vars

\* C14 witness: a migration has run to its end: the store holds the snapshot
\* with the agent reassigned and "Migrating", and one event was published on
\* each channel.
C14_Witness ==
    /\ boots = 0
    /\ \A t \in Tasks : pc[t] = "idle"
    /\ applied = <<Mutation("agent_reassign", "a1")>>
    /\ last_snapshot.held
    /\ last_snapshot.state = FabricState(compute_nodes, ai_agents)
    /\ ai_agents["a1"].status = "Migrating"
    /\ ai_agents["a1"].assigned_node_id = "n2"
    /\ Len(event_bus) = 1
    /\ Len(event_stream) = 1

\* --------------------------------------------------------------------- C15

\* The steps of register_node before its broadcast.
RegisterNodePcs == {"rn_lock", "rn_dial", "rn_clients", "rn_pool"}

\* C15: register_node(n) stores n under n.id (nothing else in the registry
\* changes) and publishes one NodeRegistered(n) on every path it runs to its
\* end: n without a proxy address, the dial succeeding, the dial failing; the
\* client pool gains an entry for n.id only when the dial succeeded and is
\* unchanged otherwise.  (A step to "idle" from one of these positions is the
\* call being abandoned by its caller.)
C15_RegisterNodeStoresOnEveryPath ==
    [][\A t \in Tasks :
         (call[t].op = "register_node" /\ Acts(t) /\ pc'[t] # "idle") =>
           LET n == call[t].args.node
           IN /\ pc'[t] = "bcast_bus" =>
                   /\ pc[t] \in RegisterNodePcs
                   /\ DOMAIN compute_nodes' = DOMAIN compute_nodes \cup {n.id}
                   /\ compute_nodes'[n.id] = n
                   /\ \A k \in DOMAIN compute_nodes \ {n.id} :
                        compute_nodes'[k] = compute_nodes[k]
                   /\ ai_agents' = ai_agents
                   /\ ev'[t].variant = "NodeRegistered"
                   /\ ev'[t].node = n
              /\ (pc[t] \in RegisterNodePcs /\ pc'[t] # "bcast_bus") =>
                   /\ pc'[t] \in RegisterNodePcs
                   /\ UNCHANGED <<compute_nodes, ai_agents, node_clients>>
              /\ (pc[t] = "rn_lock" /\ n.proxy_listen_address = None) => pc'[t] = "bcast_bus"
              /\ pc[t] = "rn_dial" => pc'[t] \in {"rn_clients", "bcast_bus"}
              /\ pc[t] = "rn_pool" =>
                   /\ pc'[t] = "bcast_bus"
                   /\ DOMAIN node_clients' = DOMAIN node_clients \cup {n.id}
                   /\ node_clients'[n.id] = n.proxy_listen_address
                   /\ \A k \in DOMAIN node_clients \ {n.id} : node_clients'[k] = node_clients[k]
              /\ pc[t] # "rn_pool" => node_clients' = node_clients
              /\ pc[t] = "bcast_bus" =>
                   /\ event_bus' = Append(event_bus, ev[t])
                   /\ pc'[t] = "bcast_stream"
              /\ pc[t] = "bcast_stream" =>
                   /\ Len(event_stream') = Len(event_stream) + 1
                   /\ event_stream'[Len(event_stream')].event_type = "NODE_REGISTERED"
                   /\ pc'[t] = "save_lock"
    ]_vars

\* C15 witness: a node with a proxy address whose dial failed is stored, its
\* event published on both channels, and the client pool has no entry for it.
C15_Witness ==
    \E t \in Tasks :
      /\ call[t].op = "register_node"
      /\ pc[t] = "save_lock"
      /\ call[t].args.node.proxy_listen_address # None
      /\ compute_nodes[call[t].args.node.id] = call[t].args.node
      /\ call[t].args.node.id \notin DOMAIN node_clients
      /\ \E i \in DOMAIN event_bus : event_bus[i] = NodeRegistered(call[t].args.node)
      /\ \E i \in DOMAIN event_stream :
           event_stream[i].message = "Node registered: " \o call[t].args.node.id

\* --------------------------------------------------------------------- C16

\* C16: update_ai_agent_status(id, s, task, progress) on an agent present in
\* the registry sets exactly status := s, current_task := task and
\* task_progress := progress (clearing task and progress when they are
\* absent), leaves id, name, agent_type and assigned_node_id, every other
\* agent and the nodes unchanged, and publishes one
\* AgentStatusUpdate(id, s, task, progress).
C16_AgentUpdateSetsStatusTaskProgress ==
    [][\A t \in Tasks :
         (call[t].op = "update_ai_agent_status" /\ Acts(t) /\ pc'[t] # "idle") =>
           LET a == call[t].args
           IN /\ pc[t] = "uas_lock" =>
                   /\ a.id \in DOMAIN ai_agents
                   /\ DOMAIN ai_agents' = DOMAIN ai_agents
                   /\ ai_agents'[a.id] =
                        [id |-> ai_agents[a.id].id, name |-> ai_agents[a.id].name,
                         agent_type |-> ai_agents[a.id].agent_type,
                         assigned_node_id |-> ai_agents[a.id].assigned_node_id,
                         status |-> a.status, current_task |-> a.task,
                         task_progress |-> a.progress]
                   /\ \A k \in DOMAIN ai_agents \ {a.id} : ai_agents'[k] = ai_agents[k]
                   /\ compute_nodes' = compute_nodes
                   /\ pc'[t] = "bcast_bus"
                   /\ ev'[t] = [variant |-> "AgentStatusUpdate", id |-> a.id,
                                status |-> a.status, task |-> a.task,
                                progress |-> a.progress, node |-> NoNode, agent |-> NoAgent]
              /\ pc'[t] = "bcast_bus" => pc[t] = "uas_lock"
              /\ pc[t] = "bcast_bus" =>
                   /\ event_bus' = Append(event_bus, ev[t])
                   /\ pc'[t] = "bcast_stream"
              /\ pc[t] = "bcast_stream" =>
                   /\ Len(event_stream') = Len(event_stream) + 1
                   /\ event_stream'[Len(event_stream')].event_type = "AGENT_STATUS_UPDATE"
                   /\ pc'[t] = "save_lock"
    ]_vars

\* C16 witness: an agent that had been given a task and a progress has been
\* updated without either, and holds neither.
C16_Witness ==
    \E t \in Tasks :
      /\ call[t].op = "update_ai_agent_status"
      /\ pc[t] = "bcast_bus"
      /\ call[t].args.task = None
      /\ Len(event_bus) = 1
      /\ event_bus[1].variant = "AgentStatusUpdate"
      /\ event_bus[1].id = call[t].args.id
      /\ event_bus[1].task = "TaskA"
      /\ ai_agents[call[t].args.id].status = "Idle"
      /\ ai_agents[call[t].args.id].current_task = None
      /\ ai_agents[call[t].args.id].task_progress = NoProgress

\* --------------------------------------------------------------------- C17

\* C17: register_ai_agent(a) stores a under a.id in the agents map, replacing
\* any entry with that id, leaves the other agents and the nodes map
\* unchanged, does so whether or not a.assigned_node_id is a registered node,
\* and publishes one AgentRegistered(a).
C17_RegisterAgentStoresUnchecked ==
    [][\A t \in Tasks :
         (call[t].op = "register_ai_agent" /\ Acts(t)) =>
           LET a == call[t].args.agent
           IN /\ pc[t] = "ra_lock" =>
                   /\ DOMAIN ai_agents' = DOMAIN ai_agents \cup {a.id}
                   /\ ai_agents'[a.id] = a
                   /\ \A k \in DOMAIN ai_agents \ {a.id} : ai_agents'[k] = ai_agents[k]
                   /\ compute_nodes' = compute_nodes
                   /\ pc'[t] = "bcast_bus"
                   /\ ev'[t] = [variant |-> "AgentRegistered", id |-> a.id, status |-> "",
                                task |-> None, progress |-> NoProgress, node |-> NoNode,
                                agent |-> a]
              /\ pc'[t] = "bcast_bus" => pc[t] = "ra_lock"
              /\ pc[t] = "bcast_bus" =>
                   /\ event_bus' = Append(event_bus, ev[t])
                   /\ pc'[t] = "bcast_stream"
              /\ pc[t] = "bcast_stream" =>
                   /\ Len(event_stream') = Len(event_stream) + 1
                   /\ event_stream'[Len(event_stream')].message = "Agent registered: " \o a.id
                   /\ pc'[t] = "save_lock"
    ]_vars

\* C17 witness: an agent assigned to a node the registry does not hold has
\* been stored and its event published.
C17_Witness ==
    \E t \in Tasks :
      /\ call[t].op = "register_ai_agent"
      /\ pc[t] = "save_lock"
      /\ call[t].args.agent.assigned_node_id # None
      /\ call[t].args.agent.assigned_node_id \notin DOMAIN compute_nodes
      /\ ai_agents[call[t].args.agent.id] = call[t].args.agent
      /\ event_bus = <<AgentRegistered(call[t].args.agent)>>

\* --------------------------------------------------------------------- C18

\* C18: update_ai_agent_status for an agent id that is not in the registry
\* leaves the registry unchanged, publishes no event, writes no snapshot and
\* returns, and the update_agent_status RPC around it answers with the
\* success response of status "OK".
C18_UpdateOfUnknownAgentAnswersOk ==
    [][\A t \in Tasks :
         (pc[t] = "uas_lock" /\ Acts(t) /\ call[t].args.id \notin DOMAIN ai_agents) =>
           /\ UNCHANGED <<compute_nodes, ai_agents, event_bus, event_stream, db>>
           /\ pc'[t] = "idle"
           /\ response' = "OK"
    ]_vars

\* C18 witness: the one call so far was an update for an agent the registry,
\* not empty, does not hold; the RPC has just answered "OK" and nothing was
\* published.
C18_Witness ==
    /\ calls = 1
    /\ returned_early = {"update_ai_agent_status"}
    /\ response = "OK"
    /\ DOMAIN ai_agents # {}
    /\ event_bus = <<>>
    /\ event_stream = <<>>
    /\ \A t \in Tasks : pc[t] = "idle"

\* --------------------------------------------------------------------- C19

\* C19: issue_command(c) forwards c to the command channel, where commands
\* stay in the order they were issued (c is put behind those waiting, and no
\* step of the manager takes one out or reorders them), publishes exactly one
\* FabricCommandIssued(c.command_type, c.target_id), and leaves the nodes and
\* agents maps unchanged; without a receiver on the channel nothing is
\* forwarded and the event is published all the same.
C19_IssueCommandForwardsAndPublishes ==
    [][/\ \A t \in Tasks :
            (call[t].op = "issue_command" /\ Acts(t)) =>
              LET c == call[t].args.cmd
              IN /\ UNCHANGED <<compute_nodes, ai_agents, db>>
                 /\ pc[t] = "ic_send" =>
                      /\ command_queue' = IF command_rx_open
                                            THEN Append(command_queue, c)
                                            ELSE command_queue
                      /\ pc'[t] = "bcast_bus"
                      /\ ev'[t] = [variant |-> "FabricCommandIssued", id |-> c.target_id,
                                   status |-> c.command_type, task |-> None,
                                   progress |-> NoProgress, node |-> NoNode,
                                   agent |-> NoAgent]
                 /\ pc'[t] = "bcast_bus" => pc[t] = "ic_send"
                 /\ pc[t] = "bcast_bus" =>
                      /\ event_bus' = Append(event_bus, ev[t])
                      /\ pc'[t] = "bcast_stream"
                 /\ pc[t] = "bcast_stream" =>
                      /\ Len(event_stream') = Len(event_stream) + 1
                      /\ event_stream'[Len(event_stream')].event_type = "FABRIC_COMMAND_ISSUED"
                      /\ event_stream'[Len(event_stream')].message =
                           "Command issued: " \o c.command_type \o " to " \o c.target_id
                      /\ pc'[t] = "idle"
       /\ Len(command_queue') >= Len(command_queue)
       /\ SubSeq(command_queue', 1, Len(command_queue)) = command_queue
    ]_vars

\* C19 witness: two different commands have been issued and both calls have
\* returned: the channel holds the two, and two events are on each channel.
C19_Witness ==
    /\ \A t \in Tasks : pc[t] = "idle"
    /\ Len(command_queue) = 2
    /\ command_queue[1] # command_queue[2]
    /\ Len(event_bus) = 2
    /\ \A i \in 1..2 : event_bus[i].variant = "FabricCommandIssued"
    /\ Len(event_stream) = 2
    /\ compute_nodes = SnapshotA.compute_nodes
    /\ ai_agents = SnapshotA.ai_agents

\* --------------------------------------------------------------------- C20

\* The event_type of each variant.
ClaimedEventType(variant) ==
    CASE variant = "NodeRegistered" -> "NODE_REGISTERED"
      [] variant = "NodeStatusUpdate" -> "NODE_STATUS_UPDATE"
      [] variant = "NodePruned" -> "NODE_PRUNED"
      [] variant = "AgentRegistered" -> "AGENT_REGISTERED"
      [] variant = "AgentStatusUpdate" -> "AGENT_STATUS_UPDATE"
      [] variant = "FabricCommandIssued" -> "FABRIC_COMMAND_ISSUED"

\* The message of each variant.
ClaimedMessage(e) ==
    CASE e.variant = "NodeRegistered" -> "Node registered: " \o e.node.id
      [] e.variant = "NodeStatusUpdate" -> "Node " \o e.id \o " status updated: " \o e.status
      [] e.variant = "NodePruned" -> "Node pruned: " \o e.id
      [] e.variant = "AgentRegistered" -> "Agent registered: " \o e.agent.id
      [] e.variant = "AgentStatusUpdate" -> "Agent " \o e.id \o " status updated: " \o e.status
      [] e.variant = "FabricCommandIssued" ->
           "Command issued: " \o e.status \o " to " \o e.id

MetadataKeys(w) == {m[1] : m \in w.metadata}

\* C20: convert_event maps every one of the six variants to a wire event with
\* the variant's event_type and templated message; the metadata is empty
\* except for AgentStatusUpdate, where current_task and task_progress are
\* present exactly when the option holds a value; telemetry is always absent.
C20_ConvertEventIsTotalProjection ==
    /\ Len(event_stream) = Len(event_bus)
    /\ \A i \in 1..Len(event_stream) :
         LET e == event_bus[i]
             w == event_stream[i]
         IN /\ w.event_type = ClaimedEventType(e.variant)
            /\ w.message = ClaimedMessage(e)
            /\ w.telemetry = None
            /\ e.variant # "AgentStatusUpdate" => w.metadata = {}
            /\ e.variant = "AgentStatusUpdate" =>
                 /\ MetadataKeys(w) \subseteq {"current_task", "task_progress"}
                 /\ "current_task" \in MetadataKeys(w) <=> e.task # None
                 /\ "task_progress" \in MetadataKeys(w) <=> e.progress # NoProgress
                 /\ e.task # None => <<"current_task", e.task>> \in w.metadata
                 /\ Cardinality(w.metadata) = Cardinality(MetadataKeys(w))

\* C20 witness: an agent status update with a task and no progress has been
\* projected, its metadata holding current_task alone, after an event of
\* another variant with empty metadata.
C20_Witness ==
    /\ Len(event_stream) = 2
    /\ event_bus[1].variant = "FabricCommandIssued"
    /\ event_stream[1].metadata = {}
    /\ event_bus[2].variant = "AgentStatusUpdate"
    /\ event_bus[2].task = "TaskA"
    /\ event_bus[2].progress = NoProgress
    /\ event_stream[2].event_type = "AGENT_STATUS_UPDATE"
    /\ event_stream[2].metadata = {<<"current_task", "TaskA">>}

\* --------------------------------------------------------------------- C21

\* What a receiver that started at position `from` and is at `next` has been
\* given if it missed nothing.
Unbroken(log, from, next) ==
    [i \in 1..(next - from) |-> [pos |-> from + i - 1, msg |-> log[from + i - 1]]]

EmptyIfUndecodable(bytes, nodes, agents) ==
    bytes.kind \in {"absent", "corrupt"} => nodes = EmptyMap /\ agents = EmptyMap

\* C22: FabricManager::new over a store where fabric_state is absent or holds
\* bytes that do not decode gives a manager with no nodes and no agents, at
\* the first start and at every restart, whatever could be read of the bytes
\* and whatever the registry held before the restart.
C22_UndecodableStoreGivesEmptyRegistry ==
    /\ boots = 0 /\ calls = 0 => EmptyIfUndecodable(db, compute_nodes, ai_agents)
    /\ [][boots' # boots =>
            /\ EmptyIfUndecodable(db, compute_nodes', ai_agents')
            /\ \A t \in Tasks : pc'[t] = "idle"
            /\ state_lock' = NoTask
         ]_vars

\* C22 witness: the process has been restarted over the cut-off snapshot
\* after a call had put a node into the registry, and the registry is empty.
C22_Witness ==
    /\ boots = 1
    /\ db = CorruptBytes
    /\ calls >= 1
    /\ "n1" \in {e[1] : e \in db.nodes}
    /\ compute_nodes = EmptyMap
    /\ ai_agents = EmptyMap

\* --------------------------------------------------------------------- C23

\* Task t is the one whose save_state fails in this step.
SaveFails(t) == pc[t] = "save_write" /\ store_failed' /\ ~store_failed

\* C23: when the insert or the flush of save_state fails, the registry keeps
\* the mutation made before it, the events published stay published, and the
\* operation returns to its caller as it does after a successful write; the
\* store holds a whole snapshot that was inserted successfully: the one it
\* held before when the insert failed, the present registry when only the
\* flush did.
C23_FailedSnapshotKeepsMemoryAndReturns ==
    [][\A t \in Tasks :
         SaveFails(t) =>
           /\ UNCHANGED <<compute_nodes, ai_agents, applied>>
           /\ UNCHANGED <<event_bus, event_stream>>
           /\ pc'[t] = "idle"
           /\ call'[t] = NoCall
           /\ response' = HandlerResponse(call[t].op)
           /\ state_lock' = NoTask
           /\ db' \in {db, bincode_serialize(FabricState(compute_nodes, ai_agents))}
           /\ last_snapshot'.held => db' = db
           /\ db'.kind = "bytes" =>
                load_state_from_db(db') \in
                  {load_state_from_db(db), FabricState(compute_nodes, ai_agents)}
    ]_vars

\* C23 witness: a1 has been migrated, its event published, the write of the
\* snapshot has failed and the call has returned: the registry holds the
\* migrated agent, the store the snapshot from before.
C23_Witness ==
    /\ store_failed
    /\ \A t \in Tasks : pc[t] = "idle"
    /\ state_lock = NoTask
    /\ "a1" \in DOMAIN ai_agents
    /\ ai_agents["a1"].status = "Migrating"
    /\ Len(event_stream) = 1
    /\ event_stream[1].event_type = "AGENT_STATUS_UPDATE"
    /\ db = bincode_serialize(SnapshotA)
    /\ load_state_from_db(db).ai_agents # ai_agents

\* --------------------------------------------------------------------- C24

\* Task t is inside broadcast_event, or inside save_state before save_state
\* has taken the lock for itself.
PublishingOrSaving(t) == pc[t] \in {"bcast_bus", "bcast_stream", "save_lock"}

\* C24: no task holds the registry lock while it is inside broadcast_event
\* or has entered save_state: every operation has dropped its guard before
\* it publishes and before it starts a snapshot.
C24_LockReleasedBeforePublishAndSnapshot ==
    \A t \in Tasks : PublishingOrSaving(t) => state_lock # t

\* --------------------------------------------------------------------- C25

\* The outbound RPC of task t is in flight.
RpcInFlight(t) == pc[t] \in {"dp_rpc", "st_rpc"}

\* C25: while the DeployAgent or StopAgent RPC of a task is in flight the task
\* holds neither the registry lock nor the client-pool lock, so that the
\* registry lock is free for any other operation unless another task has it.
C25_NoLockHeldDuringRpc ==
    \A t \in Tasks :
       RpcInFlight(t) =>
         /\ state_lock # t
         /\ clients_lock # t
         /\ (\A u \in Tasks \ {t} : state_lock # u) => state_lock = NoTask

\* C25 witness: a DeployAgent RPC is in flight for an agent composed for n1,
\* and both locks are free.
C25_Witness ==
    \E t \in Tasks :
       /\ pc[t] = "dp_rpc"
       /\ loc[t].new_agent.assigned_node_id = "n1"
       /\ "n1" \in DOMAIN node_clients
       /\ state_lock = NoTask
       /\ clients_lock = NoTask

\* --------------------------------------------------------------------- C26

\* C26: register_node does not hold the registry lock while it dials the
\* proxy address of the node, so that other callers can take the lock for as
\* long as the connect takes.
C26_RegistryLockFreeDuringDial ==
    \A t \in Tasks : pc[t] = "rn_dial" => state_lock # t

\* --------------------------------------------------------------------- C27

\* C27: no task holds the registry lock and the client-pool lock at the same
\* time, in register_node, deploy_agent, stop_agent or anywhere else.
C27_NeverBothLocks ==
    \A t \in Tasks : ~(state_lock = t /\ clients_lock = t)

\* --------------------------------------------------------------------- C28

\* Task t runs deploy_agent or stop_agent and has left the checks without
\* making the RPC: a precondition failed.
FailedPrecondition(t) ==
    /\ call[t].op \in {"deploy_agent", "stop_agent"}
    /\ loc[t].resp = ""
    /\ pc[t] \notin {"dp_lock", "dp_clients", "dp_pool", "dp_rpc",
                     "st_lock", "st_clients", "st_pool", "st_rpc"}

\* C28: deploy_agent or stop_agent whose precondition fails (unknown node or
\* agent, node not Online, agent without a node, no client for the node)
\* releases the registry lock and returns; it publishes no event and writes
\* no snapshot, so it is never found in broadcast_event or save_state.
C28_FailedPreconditionReleasesAndReturns ==
    [][\A t \in Tasks :
         FailedPrecondition(t)' =>
           /\ state_lock' # t
           /\ pc'[t] = "idle"
           /\ UNCHANGED <<event_bus, event_stream, db>>
    ]_vars

\* --------------------------------------------------------------------- C29

\* Task t returns from deploy_agent or stop_agent whose RPC yielded an error.
ReturnsAfterRpcError(t) ==
    /\ call[t].op \in {"deploy_agent", "stop_agent"}
    /\ loc[t].resp = "Err"
    /\ pc[t] # "idle"
    /\ pc'[t] = "idle"

\* C29: when the DeployAgent or StopAgent RPC fails at the transport level the
\* registry shows it once the operation is over: the agent that was being
\* deployed is there with status "Failed", the agent that was being stopped
\* has status "Error".
C29_RpcErrorIsRecordedInRegistry ==
    [][\A t \in Tasks :
         ReturnsAfterRpcError(t) =>
           /\ call[t].op = "deploy_agent" =>
                /\ loc[t].agent_id \in DOMAIN ai_agents'
                /\ ai_agents'[loc[t].agent_id].status = "Failed"
           /\ call[t].op = "stop_agent" =>
                /\ call[t].args.id \in DOMAIN ai_agents'
                /\ ai_agents'[call[t].args.id].status = "Error"
    ]_vars

\* --------------------------------------------------------------------- C30

\* The positions on the internal channel of the events of mutations.
MutationEvents == {i \in DOMAIN event_bus : event_bus[i].variant # "FabricCommandIssued"}

\* The place in the commit order of the mutation that the event at position i
\* of the internal channel answers to: events of one (variant, id) are taken
\* in the order of their mutations.
CommitIndex(i) ==
    LET k == EventKey(event_bus[i])
        nth == Cardinality({j \in 1..i : EventKey(event_bus[j]) = k})
        same == {m \in DOMAIN applied : MutationKey(applied[m]) = k}
    IN IF \E m \in same : Cardinality({x \in same : x <= m}) = nth
       THEN CHOOSE m \in same : Cardinality({x \in same : x <= m}) = nth
       ELSE 0

\* C30: events are published in the order in which their mutations were
\* applied to the registry: of two events on the internal channel the earlier
\* one answers to the mutation applied earlier, also when the mutations were
\* made by concurrent callers that publish after releasing the lock.
C30_EventsFollowCommitOrder ==
    \A i, j \in MutationEvents : i < j => CommitIndex(i) < CommitIndex(j)

\* --------------------------------------------------------------------- C31

\* C31: the store never regresses: whatever is written to fabric_state
\* encodes the registry as it is at the write, never an earlier one, so that
\* once every operation in flight is over (and no write has failed) the store
\* holds the snapshot of the last mutation applied.
C31_StoreNeverRegresses ==
    /\ [][db' # db =>
            load_state_from_db(db') = FabricState(compute_nodes, ai_agents)]_vars
    /\ []((/\ applied # <<>>
           /\ \A t \in Tasks : pc[t] = "idle"
           /\ ~store_failed)
          => db = bincode_serialize(FabricState(compute_nodes, ai_agents)))

\* --------------------------------------------------------------------- C32

\* C32: for every node id the last_seen the registry holds never decreases
\* while the node stays in the registry, whatever register_node (also of an
\* id already registered, with the last_seen of the caller) and
\* update_node_status do.
C32_LastSeenNeverDecreases ==
    [][\A id \in DOMAIN compute_nodes \cap DOMAIN compute_nodes' :
         compute_nodes'[id].last_seen >= compute_nodes[id].last_seen]_vars

\* --------------------------------------------------------------------- C33

\* C33: register_node for an id that has a client in the pool does not dial
\* again and does not write the pool: an entry of the pool is written once
\* and stays as it is for the life of the process.
C33_NoRedialOnReRegistration ==
    [][/\ \A t \in Tasks :
            (pc[t] # "rn_dial" /\ pc'[t] = "rn_dial") =>
              call'[t].args.node.id \notin DOMAIN node_clients
       /\ \A t \in Tasks :
            (pc[t] = "rn_pool" /\ pc'[t] # "rn_pool") =>
              call[t].args.node.id \notin DOMAIN node_clients
       /\ \A id \in DOMAIN node_clients :
            id \in DOMAIN node_clients' /\ node_clients'[id] = node_clients[id]
    ]_vars

\* --------------------------------------------------------------------- C34

\* C34: the pruner never starts a prune while one is running, and ticks
\* missed during a long prune are coalesced: the tick that fires late, after
\* the prune is over, is the only one, the next being due no earlier than
\* now, so that there is not one prune for each tick missed.
C34_ReaperCoalescesMissedTicks ==
    [][reaper'.runs > reaper.runs =>
         /\ pc[ReaperTask] = "idle"
         /\ now > reaper.deadline => reaper'.deadline >= now
    ]_vars

\* --------------------------------------------------------------------- C35

\* C35: a subscriber that receives a Lagged signal keeps its subscription:
\* the gRPC stream of stream_fabric_events and the websocket forwarder go on
\* delivering the events published after the lag.
C35_SubscriberSurvivesLag ==
    [][sub_lags' > sub_lags => sub_open']_vars

\* --------------------------------------------------------------------- C36

\* C36: no FabricManager operation removes an agent: the staleness predicate
\* of prune_stale_entities is false for every agent, assigned to a node or
\* not, and no step makes the set of agent ids of the registry smaller.
C36_AgentIdsNeverShrink ==
    [][/\ DOMAIN ai_agents \subseteq DOMAIN ai_agents'
       /\ \A t \in Tasks :
            pc[t] = "pr_agents" =>
              \A id \in DOMAIN ai_agents : ~StaleAgent(ai_agents[id], loc[t].now, now)]_vars

\* A prune that removed a stale node is past its agent filter, and the
\* registry still holds an agent assigned to a node.
C36_Witness ==
    \E t \in Tasks :
      /\ call[t].op = "prune_stale_entities"
      /\ pc[t] = "save_lock"
      /\ loc[t].pruned
      /\ \E id \in DOMAIN ai_agents : ai_agents[id].assigned_node_id # None

\* --------------------------------------------------------------------- C37

\* Task t is at an await of self.state.lock().
WaitsForRegistry(t) ==
    pc[t] \in {"rn_lock", "uns_lock", "ra_lock", "uas_lock", "pr_lock", "dp_lock",
               "st_lock", "mg_lock", "save_lock", "dp_relock", "st_relock"}

\* Task t is at an await of self.node_clients.lock().
WaitsForPool(t) == pc[t] \in {"rn_clients", "dp_clients", "st_clients"}

\* C37: a task that holds the client-pool lock took the registry lock first
\* and still holds it, a task takes the pool lock only with the registry lock
\* in hand, and no task waits for the registry lock while it holds the pool
\* lock: no two tasks wait for each other over the two locks.
C37_RegistryLockBeforePoolLock ==
    /\ \A t \in Tasks :
         /\ clients_lock = t => state_lock = t
         /\ WaitsForPool(t) => state_lock = t
         /\ WaitsForRegistry(t) => clients_lock # t
    /\ ~ \E t, u \in Tasks :
           /\ t # u
           /\ state_lock = t /\ WaitsForPool(t)
           /\ clients_lock = u /\ WaitsForRegistry(u)

\* A stop_agent holds both locks while another task waits for the registry
\* lock.
C37_Witness ==
    \E t, u \in Tasks :
      /\ t # u
      /\ pc[t] = "st_pool"
      /\ state_lock = t
      /\ clients_lock = t
      /\ WaitsForRegistry(u)

\* --------------------------------------------------------------------- C38

\* The age of the node is at most NODE_STALE_MINUTES at clock value t.
WithinGrace(node, t) == t - node.last_seen <= NODE_STALE_MINUTES * TicksPerMinute

\* C38: no step of prune_stale_entities removes a node whose age at the clock
\* value the prune read is at most 5 minutes, adds a node, or changes a field
\* of a node it keeps; the only events it publishes are NodePruned for the id
\* it has just removed; and with no node beyond 5 minutes it removes nothing,
\* publishes nothing and returns without writing a snapshot.
C38_PruneTouchesOnlyStaleNodes ==
    [][\A t \in Tasks :
         (call[t].op = "prune_stale_entities" /\ Acts(t)) =>
           LET removed == (DOMAIN compute_nodes) \ (DOMAIN compute_nodes')
           IN /\ DOMAIN compute_nodes' \subseteq DOMAIN compute_nodes
              /\ \A id \in removed : ~WithinGrace(compute_nodes[id], loc[t].now)
              /\ \A id \in DOMAIN compute_nodes' : compute_nodes'[id] = compute_nodes[id]
              /\ event_bus' # event_bus =>
                   \E id \in PrunedIds \ DOMAIN compute_nodes :
                     /\ applied[Len(applied)] = Mutation("node_remove", id)
                     /\ event_bus' = Append(event_bus, NodePruned(id))
              /\ event_stream' # event_stream =>
                   \E id \in PrunedIds \ DOMAIN compute_nodes :
                     /\ applied[Len(applied)] = Mutation("node_remove", id)
                     /\ Len(event_stream') = Len(event_stream) + 1
                     /\ WireKey(event_stream'[Len(event_stream')])
                          = <<"NODE_PRUNED", "Node pruned: " \o id>>
              /\ (pc[t] = "pr_lock"
                    /\ \A id \in DOMAIN compute_nodes : WithinGrace(compute_nodes[id], now))
                   => (pc'[t] = "pr_agents" /\ ~loc'[t].pruned)
              /\ (pc[t] = "pr_agents" /\ ~loc[t].pruned)
                   => (pc'[t] = "idle" /\ state_lock' = NoTask)
              /\ ~loc[t].pruned =>
                   (event_bus' = event_bus /\ event_stream' = event_stream /\ db' = db)]_vars

\* A prune has removed the stale node n1 and published NodePruned for it, and
\* the registry holds a node within the grace period as it was before.
C38_Witness ==
    \E t \in Tasks :
      /\ call[t].op = "prune_stale_entities"
      /\ pc[t] = "save_lock"
      /\ PrunedIds = {"n1"}
      /\ Count(event_bus, LAMBDA e : e = NodePruned("n1")) = 1
      /\ \E id \in DOMAIN compute_nodes : WithinGrace(compute_nodes[id], loc[t].now)

\* --------------------------------------------------------------------- C39

\* C39: when stop_agent writes the status "Stopped" for an agent, the node its
\* StopAgent RPC went to is the node the agent is assigned to at that moment,
\* whatever migrate_agent did between the lookup and the write.
C39_StoppedOnTheNodeThatGotTheRpc ==
    [][\A t \in Tasks :
         (/\ pc[t] = "st_relock"
          /\ Acts(t)
          /\ call[t].args.id \in DOMAIN ai_agents'
          /\ ai_agents'[call[t].args.id].status = "Stopped"
          /\ ai_agents' # ai_agents)
           => ai_agents'[call[t].args.id].assigned_node_id = loc[t].node_id]_vars

\* --------------------------------------------------------------------- C40

\* C40: concurrent validate_token and revoke_token calls never wait for each
\* other: no state has one call holding the revoked_tokens lock and waiting
\* for the active_tokens lock while another holds the active_tokens lock and
\* waits for the revoked_tokens lock.
C40_NoCircularWaitOnTokenTables ==
    ~ \E t, u \in Tasks :
        /\ t # u
        /\ security.pc[t] = "vt_active"
        /\ t \in security.revoked_lock.readers
        /\ ~CanRead(security.active_lock)
        /\ security.pc[u] = "rv_revoked"
        /\ security.active_lock.writer = u
        /\ ~CanWrite(security.revoked_lock)

====
